---- MODULE Spec2Model ----
(***************************************************************************)
(* Browser pool, context acquisition and render pipeline of webunlock.     *)
(*                                                                         *)
(* The pool (browserPool.ts) is event-loop code: every handler runs to its *)
(* next `await` without interruption, and at an `await` on a timer or on   *)
(* the engine any other handler that is ready may run.  An `await` on a    *)
(* promise the program itself has settled resumes in the same microtask    *)
(* checkpoint, before any other event is delivered.  Each action below is  *)
(* one such uninterrupted piece; pc[r] is the await at which request r is  *)
(* parked.                                                                 *)
(***************************************************************************)
EXTENDS Integers, Sequences, FiniteSets, TLC

\* ---------------------------------------------------------------- bounds
NumReqs == 2            \* render requests in one run
QueueReqs == 3          \* render requests that arrive at a saturated pool
MaxId == 2              \* browsers ever launched in one run (uuid supply)
MaxFaults == 1          \* engine faults in one run: a browser process dying on
                        \* its own, or a launch, createContext or close that throws
MaxMinBrowsers == 1     \* options.minBrowsers ranges over 0..MaxMinBrowsers
MaxMaxBrowsers == 2     \* options.maxBrowsers ranges over 1..MaxMaxBrowsers
MaxContexts == 2        \* options.maxContextsPerBrowser ranges over 1..MaxContexts
MaxTime == 70000        \* the clock of the timed pipeline stops here (ms)
MaxPort == 2            \* the port in proxy.server ranges over 0..MaxPort (0: none)
MaxScrolls == 3         \* scroll.max_scrolls ranges over 1..MaxScrolls
MaxHeight == 3          \* document.body.scrollHeight ranges over 1..MaxHeight
MaxScripts == 2         \* render.js_code holds 0..MaxScripts scripts
NumCalls == 3           \* HTTP requests to POST /v1/render
NumKeys == 2            \* client addresses
MaxLimit == 2           \* maxRequests ranges over 0..MaxLimit
ClockStep == 500        \* Date.now() advances in steps of ClockStep (ms)
MaxClock == 2000        \* Date.now() stops here (ms)

\* ---------------------------------------------------------------- constants
DefaultHttpsPort == 443     \* parseProxy: the port of an https proxy without one
DefaultProxyPort == 8080    \* parseProxy: the port of any other proxy without one
AcquireTimeoutMs == 35000   \* render: withTimeout(pool.acquire(...), 35000, ...)
DefaultTimeoutMs == 30000   \* handleRender: timeout_ms || 30000
TimeoutBufferMs == 30000    \* handleRender: ... + 30000
NavBufferMs == 5000         \* loadPage: withTimeout(page.goto(...), timeout_ms + 5000, ...)

VARIABLES
    opts,               \* BrowserPoolOptions fixed by the constructor
    instances,          \* Map<string, BrowserInstance>, in insertion order
    isHealthy,          \* BrowserInstance.isHealthy, per id
    contextCounts,      \* Map<string, number>
    queue,              \* pending acquisitions (their requests), head first
    healthCheckTimer,   \* the setInterval of _initialize is running
    isShuttingDown,
    initState,          \* initPromise: "none" | "running" | "done"
    initLaunches,       \* launches of _initialize still awaited
    replLaunches,       \* replacement launches still awaited
    launchFailed,       \* a launch of _initialize or a replacement launch has
                        \* failed
    nextId,             \* next fresh instance id
    engine,             \* browser process per id: "none" | "up" | "dying" | "dead"
    tickClosing,        \* ids whose close() the health tick is awaiting
    shutState,          \* shutdown(): "none" | "closing" | "done"
    faults,             \* engine faults so far
    pc,                 \* per request: the await it is parked at
    inst,               \* per request: the instance its slot is on (0: none)
    abandoned,          \* per request: render's 35 s withTimeout has fired
    outcome,            \* per request: how its acquire promise settled
    released,           \* per request: completed runs of the lease's cleanup
    ahead,              \* per request: acquisitions queued when acquire was called
    claimed,            \* requests processQueue has claimed and is creating a
                        \* context for, in claim order
    ticket,             \* per queued request: its place in the order of the
                        \* push calls (0: not queued)
    timers,             \* the requests whose waitForAvailable timer is armed
    settles,            \* per request: calls of resolve or reject made on the
                        \* promise of its pending acquisition
    \* one request through handleRender -> renderWithTimeout -> render, timed
    rnow,               \* the clock (ms)
    rTimeoutMs,         \* the request's render.timeout_ms (0: not given)
    rStart,             \* when renderWithTimeout was called
    rStage,             \* where render() is
    rResult,            \* the response render() returns
    rResp,              \* the response renderWithTimeout returns ("none": not yet)
    rRespAt,            \* when renderWithTimeout returned
    rWinner,            \* which side of the outer Promise.race settled it
    rNavStart,          \* when loadPage called page.goto
    rWhy,               \* why render() failed: "none" | "timeout" (one that
                        \* render's catch reports) | "navigation_timeout" | "other"
    rLease,             \* the lease of the request: "none" | "held" | "released"
    \* the rate limiter and the requests through handleRender
    limiter,            \* RateLimiter's windowMs, maxRequests, enabled
    clock,              \* Date.now() (ms)
    store,              \* RateLimiter.store: per key its entry, or NoEntry
    reply,              \* per HTTP request: where handleRender is, the result
                        \* of isAllowed, the headers set and the response sent
    win,                \* per key: the start of its current fixed window, the
                        \* calls made in it and the calls accepted in it
    \* server.ts
    serverState,        \* start(): "down" | "initializing" (awaiting
                        \* pool.initialize()) | "listening"
    \* one request through render, stage by stage, without a clock
    pConfig,            \* the completed request: which optional stages it asks for
    pStage,             \* where render() is
    pRan,               \* the stages that have run, in order
    pScripts,           \* the js_code scripts that have been evaluated
    pSoft,              \* the failures the stages have caught and logged
    pDetect,            \* what performDetection returned
    pResult,            \* the response render() returns (NoResponse: not yet)
    pAnswer,            \* the response renderWithTimeout returns
    \* one call of performScroll
    sConfig,            \* its ScrollConfig: enabled, max_scrolls
    sPc,                \* where it is: "idle" | "loop" | "overshoot" | "done"
    sIter,              \* the loop variable i
    scrollsPerformed,
    contentChanges,
    previousHeight,
    sBroke,             \* the loop was left by its break
    sResult,            \* the ScrollResult returned
    \* server.ts shutdown(signal)
    sdState,            \* "serving" | "closing" (awaiting app.close()) |
                        \* "poolShutdown" (awaiting shutdownBrowserPool()) | "exited"
    exitCode,           \* the argument of process.exit (-1: still running)
    \* one call of contextFactory's createContext
    pxConfig,           \* options.proxy
    pxPc,               \* "idle" | "creating" (awaiting browser.newContext) |
                        \* "created" | "failed"
    proxyUsed,          \* the flag the CreatedContext carries
    playwrightProxy     \* the proxy option given to browser.newContext

poolVars == <<opts, instances, isHealthy, contextCounts, queue, healthCheckTimer,
              isShuttingDown, initState, initLaunches, replLaunches, launchFailed, nextId,
              engine, tickClosing, shutState, faults>>
reqVars == <<pc, inst, abandoned, outcome, settles, released, ahead, claimed, ticket, timers>>
renderVars == <<rnow, rTimeoutMs, rStart, rStage, rResult, rResp, rRespAt, rWinner,
                rNavStart, rWhy, rLease>>
apiVars == <<limiter, clock, store, reply, win>>
serverVars == <<serverState>>
pipeVars == <<pConfig, pStage, pRan, pScripts, pSoft, pDetect, pResult, pAnswer>>
scrollVars == <<sConfig, sPc, sIter, scrollsPerformed, contentChanges, previousHeight,
                sBroke, sResult>>
sigVars == <<sdState, exitCode>>
proxyVars == <<pxConfig, pxPc, proxyUsed, playwrightProxy>>
utilVars == <<pipeVars, scrollVars, sigVars, proxyVars>>
vars == <<poolVars, reqVars, renderVars, apiVars, serverVars, utilVars>>

Reqs == DOMAIN pc
Ids == 1..MaxId

\* ---------------------------------------------------------------- helpers
Max(a, b) == IF a >= b THEN a ELSE b

Range(s) == {s[k] : k \in 1..Len(s)}

Without(s, x) == SelectSeq(s, LAMBDA y : y # x)

\* this.contextCounts.get(id) || 0
Count(cc, id) == IF id \in DOMAIN cc THEN cc[id] ELSE 0

\* this.contextCounts.set(id, v)
SetCount(cc, id, v) == [k \in (DOMAIN cc) \cup {id} |-> IF k = id THEN v ELSE cc[k]]

\* this.contextCounts.delete(id)
DeleteCount(cc, id) == [k \in (DOMAIN cc) \ {id} |-> cc[k]]

\* this.instances.delete(id)
DeleteInstance(insts, id) == Without(insts, id)

\* variant: the capacity test lets a full instance through
findAvailableBrowserAtLimit(insts, healthy, cc) ==
    LET free == SelectSeq(insts, LAMBDA i :
                    healthy[i] /\ Count(cc, i) <= opts.maxContextsPerBrowser)
    IN IF free = <<>> THEN 0 ELSE Head(free)

\* first healthy instance, in Map order, with a free slot; 0 when there is none
findAvailableBrowser(insts, healthy, cc) ==
    LET free == SelectSeq(insts, LAMBDA i :
                    healthy[i] /\ Count(cc, i) < opts.maxContextsPerBrowser)
    IN IF free = <<>> THEN 0 ELSE Head(free)

\* the guard that opens launchBrowser
CanLaunch(insts) == Len(insts) < opts.maxBrowsers

\* the synchronous head of createContextFromInstance: reserve the slot
Reserve(cc, id) == SetCount(cc, id, Count(cc, id) + 1)

\* variant: the slot is not given back
UnreserveForgotten(cc, id) == cc

\* the decrement of cleanup and of the catch of createContextFromInstance
Unreserve(cc, id) == SetCount(cc, id, Max(0, Count(cc, id) - 1))

\* this.queue.shift(): the entry processQueue takes
nextPending(q) == Head(q)

\* variant: the timer drops the head of the queue instead of its own entry
removePendingHead(q, r) == Tail(q)

\* the timer of waitForAvailable: findIndex of the entry, then splice(index, 1)
removePending(q, r) == Without(q, r)

\* an engine fault is possible while the run's budget of faults lasts
\* the messages of the two shutdown errors: acquire's throw, shutdown's reject
ShuttingDownMessage == "Browser pool is shutting down"

QueueShutdownMessage == "Browser pool shutting down"

\* variant: acquire has no shutting-down check
acquireNeverRefuses == FALSE

\* acquire: if (this.isShuttingDown) throw
acquireRefuses == isShuttingDown

\* variant: the timer of a shifted entry is left armed
clearTimeoutForgotten(ts, r) == ts

\* clearTimeout(item.timeout)
clearTimeout(ts, r) == ts \ {r}

\* the message the queue timer rejects with
TimeoutMessage == "Timeout waiting for available browser"

Fault == faults < MaxFaults /\ faults' = faults + 1

\* ---------------------------------------------------------------- Init
Options ==
    {o \in [minBrowsers : 0..MaxMinBrowsers,
            maxBrowsers : 1..MaxMaxBrowsers,
            maxContextsPerBrowser : 1..MaxContexts] :
        o.minBrowsers <= o.maxBrowsers}

\* ---------------------------------------------------------------- rate limiter
Keys == 1..NumKeys
Calls == 1..NumCalls

\* store.get(key) of a key without entry
NoEntry == [count |-> 0, windowStart |-> 0]

\* no isAllowed call yet
NoResult == [allowed |-> FALSE, remaining |-> 0, resetAt |-> 0]

\* no window of the key has begun
NoWindow == [start |-> 0 - 1, calls |-> 0, accepted |-> 0]

\* a request handleRender has not been called for
NoReply == [pc |-> "idle", key |-> 0, at |-> 0, idx |-> 0, result |-> NoResult,
            headers |-> <<>>, status |-> 0, code |-> "none", bodyValid |-> TRUE,
            validated |-> FALSE, rendered |-> FALSE]

\* the RateLimiter the server builds from the default configuration, unused
LimiterIdle ==
    /\ limiter = [windowMs |-> 60000, maxRequests |-> 30, enabled |-> TRUE]
    /\ clock = 0
    /\ store = [k \in Keys |-> NoEntry]
    /\ reply = [h \in Calls |-> NoReply]
    /\ win = [k \in Keys |-> NoWindow]

\* a response: null content, meta and errors are told by the three flags
NoResponse ==
    [made |-> FALSE, success |-> FALSE, request_id |-> "", contentNull |-> TRUE,
     html |-> FALSE, screenshot |-> FALSE, metaNull |-> TRUE,
     captcha_detected |-> FALSE, blocked |-> FALSE, errorsNull |-> TRUE,
     errors |-> <<>>, timestamp |-> ""]

\* no request without optional stages has been given to render
NoConfig ==
    [networkidle |-> FALSE, js_code |-> 0, wait_for |-> FALSE, scroll |-> FALSE,
     screenshot |-> FALSE]

\* performDetection has not run
NoDetection == [captchaDetected |-> FALSE, blocked |-> FALSE]

\* no request is in the untimed pipeline
PipelineIdle ==
    /\ pConfig = NoConfig
    /\ pStage = "idle"
    /\ pRan = <<>>
    /\ pScripts = 0
    /\ pSoft = {}
    /\ pDetect = NoDetection
    /\ pResult = NoResponse
    /\ pAnswer = NoResponse

\* no ScrollResult yet
NoScrollResult == [returned |-> FALSE, scrollsPerformed |-> 0, contentChanges |-> 0]

\* performScroll has not been called
ScrollIdle ==
    /\ sConfig = [enabled |-> FALSE, max_scrolls |-> 1]
    /\ sPc = "idle"
    /\ sIter = 0
    /\ scrollsPerformed = 0
    /\ contentChanges = 0
    /\ previousHeight = 0
    /\ sBroke = FALSE
    /\ sResult = NoScrollResult

\* no signal has been received
SignalIdle ==
    /\ sdState = "serving"
    /\ exitCode = -1

\* options.proxy is undefined
NoProxy == [server |-> "absent", port |-> 0, username |-> FALSE, password |-> FALSE]

\* no proxy option for browser.newContext
NoPlaywrightProxy == [set |-> FALSE, protocol |-> "", port |-> 0, auth |-> FALSE]

\* createContext has not been called
ProxyIdle ==
    /\ pxConfig = NoProxy
    /\ pxPc = "idle"
    /\ proxyUsed = FALSE
    /\ playwrightProxy = NoPlaywrightProxy

UtilIdle ==
    /\ PipelineIdle
    /\ ScrollIdle
    /\ SignalIdle
    /\ ProxyIdle

\* no timed request is under way
RenderIdle ==
    /\ rnow = 0
    /\ rTimeoutMs = 0
    /\ rStart = 0
    /\ rStage = "idle"
    /\ rResult = "none"
    /\ rResp = "none"
    /\ rRespAt = 0
    /\ rWinner = "none"
    /\ rNavStart = 0
    /\ rWhy = "none"
    /\ rLease = "none"

Init ==
    /\ serverState = "down"
    /\ UtilIdle
    /\ LimiterIdle
    /\ RenderIdle
    /\ opts \in Options
    /\ instances = <<>>
    /\ isHealthy = [i \in Ids |-> TRUE]
    /\ contextCounts = <<>>
    /\ queue = <<>>
    /\ healthCheckTimer = FALSE
    /\ isShuttingDown = FALSE
    /\ initState = "none"
    /\ initLaunches = 0
    /\ replLaunches = 0
    /\ launchFailed = FALSE
    /\ nextId = 1
    /\ engine = [i \in Ids |-> "none"]
    /\ tickClosing = {}
    /\ shutState = "none"
    /\ faults = 0
    /\ pc = [r \in 1..NumReqs |-> "idle"]
    /\ inst = [r \in 1..NumReqs |-> 0]
    /\ abandoned = [r \in 1..NumReqs |-> FALSE]
    /\ outcome = [r \in 1..NumReqs |-> "none"]
    /\ released = [r \in 1..NumReqs |-> 0]
    /\ ahead = [r \in 1..NumReqs |-> {}]
    /\ claimed = <<>>
    /\ ticket = [r \in 1..NumReqs |-> 0]
    /\ timers = {}
    /\ settles = [r \in 1..NumReqs |-> 0]

\* A saturated pool: one browser (minBrowsers = maxBrowsers = 1) whose
\* MaxContexts slots are all leased to renders that are in their pipeline, and
\* QueueReqs further requests yet to arrive.  Spec reaches such states when it
\* is given as many requests.
InitSaturated ==
    /\ serverState = "listening"
    /\ UtilIdle
    /\ LimiterIdle
    /\ RenderIdle
    /\ opts = [minBrowsers |-> 1, maxBrowsers |-> 1,
               maxContextsPerBrowser |-> MaxContexts]
    /\ instances = <<1>>
    /\ isHealthy = [i \in Ids |-> TRUE]
    /\ contextCounts = <<MaxContexts>>
    /\ queue = <<>>
    /\ healthCheckTimer = TRUE
    /\ isShuttingDown = FALSE
    /\ initState = "done"
    /\ initLaunches = 0
    /\ replLaunches = 0
    /\ launchFailed = FALSE
    /\ nextId = 2
    /\ engine = [i \in Ids |-> IF i = 1 THEN "up" ELSE "none"]
    /\ tickClosing = {}
    /\ shutState = "none"
    /\ faults = 0
    /\ pc = [r \in 1..(MaxContexts + QueueReqs) |->
                IF r <= MaxContexts THEN "running" ELSE "idle"]
    /\ inst = [r \in 1..(MaxContexts + QueueReqs) |->
                IF r <= MaxContexts THEN 1 ELSE 0]
    /\ abandoned = [r \in 1..(MaxContexts + QueueReqs) |-> FALSE]
    /\ outcome = [r \in 1..(MaxContexts + QueueReqs) |->
                IF r <= MaxContexts THEN "lease" ELSE "none"]
    /\ released = [r \in 1..(MaxContexts + QueueReqs) |-> 0]
    /\ ahead = [r \in 1..(MaxContexts + QueueReqs) |-> {}]
    /\ claimed = <<>>
    /\ ticket = [r \in 1..(MaxContexts + QueueReqs) |-> 0]
    /\ timers = {}
    /\ settles = [r \in 1..(MaxContexts + QueueReqs) |-> 0]

\* variant: every call starts _initialize, without a look at initPromise
initializeEveryCall ==
    /\ initState' = "running"
    /\ initLaunches' = initLaunches + opts.minBrowsers

\* ---------------------------------------------------------------- pool
\* initialize(): the first caller starts _initialize, which calls launchBrowser
\* minBrowsers times in a row; each call passes the size check before any of
\* them has stored its instance.  Later callers share initPromise.
initialize ==
    IF initState = "none"
    THEN /\ initState' = "running"
         /\ initLaunches' = IF CanLaunch(instances) THEN opts.minBrowsers ELSE 0
    ELSE UNCHANGED <<initState, initLaunches>>

\* launchBrowser after `await chromium.launch`: store the instance (ok), or
\* the catch returns null
launchSettles(ok) ==
    IF ok
    THEN /\ nextId <= MaxId
         /\ instances' = Append(instances, nextId)
         /\ engine' = [engine EXCEPT ![nextId] = "up"]
         /\ nextId' = nextId + 1
         /\ UNCHANGED faults
    ELSE /\ Fault
         /\ UNCHANGED <<instances, engine, nextId>>

\* launchBrowser: this.contextCounts.set(instance.id, 0)
launchBrowserCounts(cc) == SetCount(cc, nextId, 0)

\* a launch nobody awaits with a use for the instance (initialize, replacement)
poolLaunchSettles(ok) ==
    /\ launchSettles(ok)
    /\ contextCounts' = IF ok THEN launchBrowserCounts(contextCounts) ELSE contextCounts
    /\ launchFailed' = (launchFailed \/ ~ok)

\* server start: await pool.initialize()
ServerInitialize ==
    /\ serverState = "down"
    /\ initState = "none"
    /\ serverState' = "initializing"
    /\ initialize
    /\ UNCHANGED <<opts, instances, isHealthy, contextCounts, queue,
                   healthCheckTimer, isShuttingDown, replLaunches, launchFailed, nextId, engine,
                   tickClosing, shutState, faults, reqVars>>

\* one launch of _initialize settles
InitLaunchDone(ok) ==
    /\ initState = "running"
    /\ initLaunches > 0
    /\ initLaunches' = initLaunches - 1
    /\ poolLaunchSettles(ok)
    /\ UNCHANGED <<opts, isHealthy, queue, healthCheckTimer, isShuttingDown,
                   initState, replLaunches, tickClosing, shutState, reqVars>>

\* start() after `await pool.initialize()`: app.listen
serverListens == IF serverState = "initializing" THEN "listening" ELSE serverState

\* _initialize after `await Promise.all`: start the health ticker; initPromise
\* resolves and start(), when it is the caller, goes on to listen
InitFinish ==
    /\ initState = "running"
    /\ initLaunches = 0
    /\ initState' = "done"
    /\ healthCheckTimer' = TRUE
    /\ serverState' = serverListens
    /\ UNCHANGED <<opts, instances, isHealthy, contextCounts, queue,
                   isShuttingDown, initLaunches, replLaunches, launchFailed, nextId, engine,
                   tickClosing, shutState, faults, reqVars>>

\* variant: a replacement is launched during shutdown as well
launchesReplacementAlways(insts) ==
    Len(insts) < opts.minBrowsers /\ CanLaunch(insts)

\* handleBrowserDisconnect: the condition of the replacement launch, and the
\* size check with which launchBrowser begins
launchesReplacement(insts) ==
    ~isShuttingDown /\ Len(insts) < opts.minBrowsers /\ CanLaunch(insts)

\* handleBrowserDisconnect(id): evict, and launch a replacement when the pool
\* is below minBrowsers and not shutting down
handleBrowserDisconnect(id) ==
    LET insts == DeleteInstance(instances, id) IN
    /\ instances' = insts
    /\ contextCounts' = DeleteCount(contextCounts, id)
    /\ replLaunches' = IF launchesReplacement(insts) THEN replLaunches + 1
                                                      ELSE replLaunches
    /\ UNCHANGED launchFailed

\* the browser process dies on its own: isConnected() turns false
EngineDisconnect(id) ==
    /\ engine[id] = "up"
    /\ Fault
    /\ engine' = [engine EXCEPT ![id] = "dying"]
    /\ UNCHANGED <<opts, instances, isHealthy, contextCounts, queue,
                   healthCheckTimer, isShuttingDown, initState, initLaunches,
                   replLaunches, launchFailed, nextId, tickClosing, shutState, reqVars>>

\* browser.on('disconnected') fires, after a death or a close()
DisconnectedEvent(id) ==
    /\ engine[id] = "dying"
    /\ engine' = [engine EXCEPT ![id] = "dead"]
    /\ handleBrowserDisconnect(id)
    /\ UNCHANGED <<opts, isHealthy, queue, healthCheckTimer, isShuttingDown,
                   initState, initLaunches, nextId, tickClosing, shutState, faults,
                   reqVars>>

\* a replacement launch settles
ReplLaunchDone(ok) ==
    /\ replLaunches > 0
    /\ replLaunches' = replLaunches - 1
    /\ poolLaunchSettles(ok)
    /\ UNCHANGED <<opts, isHealthy, queue, healthCheckTimer, isShuttingDown,
                   initState, initLaunches, tickClosing, shutState, reqVars>>

\* healthCheck, one instance, branch `!instance.browser.isConnected()`
HealthTickDisconnected(id) ==
    /\ healthCheckTimer
    /\ id \in Range(instances)
    /\ id \notin tickClosing
    /\ engine[id] # "up"
    /\ isHealthy' = [isHealthy EXCEPT ![id] = FALSE]
    /\ handleBrowserDisconnect(id)
    /\ UNCHANGED <<opts, queue, healthCheckTimer, isShuttingDown, initState,
                   initLaunches, nextId, engine, tickClosing, shutState, faults,
                   reqVars>>

\* healthCheck, one instance, idle branch up to `await instance.browser.close()`.
\* idleTime > browserIdleTimeout is left open: any instance may be idle long enough.
HealthTickIdleStart(id) ==
    /\ healthCheckTimer
    /\ id \in Range(instances)
    /\ id \notin tickClosing
    /\ engine[id] = "up"
    /\ Count(contextCounts, id) = 0
    /\ Len(instances) > opts.minBrowsers
    /\ tickClosing' = tickClosing \cup {id}
    /\ engine' = [engine EXCEPT ![id] = "dying"]
    /\ UNCHANGED <<opts, instances, isHealthy, contextCounts, queue,
                   healthCheckTimer, isShuttingDown, initState, initLaunches,
                   replLaunches, launchFailed, nextId, shutState, faults, reqVars>>

\* healthCheck after the close: evict (ok), or the catch marks it unhealthy
HealthTickIdleFinish(id, ok) ==
    /\ id \in tickClosing
    /\ tickClosing' = tickClosing \ {id}
    /\ IF ok
       THEN /\ instances' = DeleteInstance(instances, id)
            /\ contextCounts' = DeleteCount(contextCounts, id)
            /\ UNCHANGED <<isHealthy, faults>>
       ELSE /\ Fault
            /\ isHealthy' = [isHealthy EXCEPT ![id] = FALSE]
            /\ UNCHANGED <<instances, contextCounts>>
    /\ UNCHANGED <<opts, queue, healthCheckTimer, isShuttingDown, initState,
                   initLaunches, replLaunches, launchFailed, nextId, engine, shutState, reqVars>>

\* processQueue() up to its await, run on the count map cc and program
\* counters pcb that the caller has just produced
processQueue(cc, pcb) ==
    LET id == findAvailableBrowser(instances, isHealthy, cc) IN
    IF queue = <<>> \/ id = 0
    THEN /\ contextCounts' = cc
         /\ pc' = pcb
         /\ UNCHANGED <<queue, claimed, inst, ticket, timers>>
    ELSE LET item == nextPending(queue) IN
         /\ queue' = Without(queue, item)
         /\ contextCounts' = Reserve(cc, id)
         /\ pc' = [pcb EXCEPT ![item] = "creating"]
         /\ inst' = [inst EXCEPT ![item] = id]
         /\ claimed' = Append(claimed, item)
         /\ ticket' = [ticket EXCEPT ![item] = 0]
         /\ timers' = clearTimeout(timers, item)

\* waitForAvailable(): push the pending acquisition and arm its timer
waitForAvailable(r) ==
    /\ queue' = Append(queue, r)
    /\ timers' = timers \cup {r}
    /\ ticket' = [ticket EXCEPT ![r] =
                     1 + Max(0, CHOOSE t \in {0} \cup {ticket[q] : q \in Range(queue)} :
                                   \A q \in Range(queue) : ticket[q] <= t)]
    /\ pc' = [pc EXCEPT ![r] = "queued"]

\* ---------------------------------------------------------------- requests
\* acquire() after `await this.initialize()`: reserve on an available browser,
\* start a launch, or queue
acquireBody(r) ==
    LET id == findAvailableBrowser(instances, isHealthy, contextCounts) IN
    IF id # 0
    THEN /\ contextCounts' = Reserve(contextCounts, id)
         /\ inst' = [inst EXCEPT ![r] = id]
         /\ pc' = [pc EXCEPT ![r] = "creating"]
         /\ UNCHANGED <<queue, ticket, timers>>
    ELSE IF CanLaunch(instances)
    THEN /\ pc' = [pc EXCEPT ![r] = "launching"]
         /\ UNCHANGED <<contextCounts, inst, queue, ticket, timers>>
    ELSE /\ waitForAvailable(r)
         /\ UNCHANGED <<contextCounts, inst>>

\* render() calls pool.acquire(): the shutting-down check and initialize()
Start(r) ==
    /\ pc[r] = "idle"
    /\ \A q \in Reqs : q < r => pc[q] # "idle"
    /\ IF acquireRefuses
       THEN /\ pc' = [pc EXCEPT ![r] = "done"]
            /\ outcome' = [outcome EXCEPT ![r] = ShuttingDownMessage]
            /\ UNCHANGED settles
            /\ UNCHANGED <<initState, initLaunches, ahead, contextCounts, inst,
                           queue, ticket, timers>>
       ELSE /\ initialize
            /\ ahead' = [ahead EXCEPT ![r] = Range(queue)]
            /\ UNCHANGED <<outcome, settles>>
            /\ IF initState = "done"
               THEN acquireBody(r)
               ELSE /\ pc' = [pc EXCEPT ![r] = "init"]
                    /\ UNCHANGED <<contextCounts, inst, queue, ticket, timers>>
    /\ UNCHANGED <<opts, instances, isHealthy, healthCheckTimer, isShuttingDown,
                   replLaunches, launchFailed, nextId, engine, tickClosing, shutState, faults,
                   abandoned, released, claimed>>

\* acquire() resumes when the initialisation it waited for has finished
AcquireResume(r) ==
    /\ pc[r] = "init"
    /\ initState = "done"
    /\ acquireBody(r)
    /\ UNCHANGED <<opts, instances, isHealthy, healthCheckTimer, isShuttingDown,
                   initState, initLaunches, replLaunches, launchFailed, nextId, engine,
                   tickClosing, shutState, faults, abandoned, outcome, settles, released,
                   ahead, claimed>>

\* the launch an acquire started settles.  launchBrowser stores the instance and
\* returns it, or its catch returns null; the promise of an async function
\* settles and the `await this.launchBrowser()` of acquire resumes in the same
\* microtask checkpoint, before any timer, I/O callback or other request runs:
\* one step.  acquire then reserves on the instance it launched without a look
\* at its count, or queues itself when there is none.
ReqLaunchDone(r, ok) ==
    /\ pc[r] = "launching"
    /\ launchSettles(ok)
    /\ IF ok
       THEN /\ contextCounts' = Reserve(launchBrowserCounts(contextCounts), nextId)
            /\ inst' = [inst EXCEPT ![r] = nextId]
            /\ pc' = [pc EXCEPT ![r] = "creating"]
            /\ UNCHANGED <<queue, ticket, timers>>
       ELSE /\ waitForAvailable(r)
            /\ UNCHANGED <<contextCounts, inst>>
    /\ UNCHANGED <<opts, isHealthy, healthCheckTimer, isShuttingDown,
                   initState, initLaunches, replLaunches, launchFailed, tickClosing, shutState,
                   abandoned, outcome, settles, released, ahead, claimed>>

\* createContextFromInstance after `await createContext(...)`: the lease is
\* returned (ok), or the catch gives the slot back and rethrows.  A lease that
\* arrives after render's withTimeout has fired has no receiver.
CreateDone(r, ok) ==
    /\ pc[r] = "creating"
    /\ claimed' = Without(claimed, r)
    /\ settles' = [settles EXCEPT ![r] = IF r \in Range(claimed) THEN settles[r] + 1
                                                              ELSE settles[r]]
    /\ abandoned' = [abandoned EXCEPT ![r] = FALSE]
    /\ IF ok
       THEN /\ pc' = [pc EXCEPT ![r] = IF abandoned[r] THEN "leaked" ELSE "running"]
            /\ outcome' = [outcome EXCEPT ![r] = "lease"]
            /\ UNCHANGED <<contextCounts, inst, faults>>
       ELSE /\ Fault
            /\ contextCounts' = Unreserve(contextCounts, inst[r])
            /\ pc' = [pc EXCEPT ![r] = "done"]
            /\ outcome' = [outcome EXCEPT ![r] = "createfail"]
            /\ inst' = [inst EXCEPT ![r] = 0]
    /\ ahead' = [ahead EXCEPT ![r] = IF ok /\ ~abandoned[r] THEN ahead[r] ELSE {}]
    /\ UNCHANGED <<opts, instances, isHealthy, queue, healthCheckTimer,
                   isShuttingDown, initState, initLaunches, replLaunches, launchFailed, nextId,
                   engine, tickClosing, shutState, released, ticket, timers>>

\* the ways render's inner try block ends: the return of the response, the
\* early return on navigation failure, a throw from any stage
ExitPaths == {"return", "navfail", "throw"}

\* variant: the early return on navigation failure leaves without the finally
PipelineEndNoFinally(r, how) ==
    /\ pc[r] = "running"
    /\ pc' = [pc EXCEPT ![r] = IF how = "navfail" THEN "done" ELSE "closing"]
    /\ ahead' = [ahead EXCEPT ![r] = {}]
    /\ UNCHANGED <<poolVars, inst, abandoned, outcome, settles, released, claimed, ticket, timers>>

\* render's inner try block ends: the finally calls cleanup()
PipelineEnd(r, how) ==
    /\ pc[r] = "running"
    /\ pc' = [pc EXCEPT ![r] = "closing"]
    /\ ahead' = [ahead EXCEPT ![r] = {}]
    /\ UNCHANGED <<poolVars, inst, abandoned, outcome, settles, released, claimed, ticket, timers>>

\* the lease's cleanup after `await originalCleanup()`: decrement, processQueue
cleanup(r, id) ==
    /\ released' = [released EXCEPT ![r] = released[r] + 1]
    /\ processQueue(Unreserve(contextCounts, id), [pc EXCEPT ![r] = "done"])

CleanupFinish(r) ==
    /\ pc[r] = "closing"
    /\ cleanup(r, inst[r])
    /\ UNCHANGED <<opts, instances, isHealthy, healthCheckTimer, isShuttingDown,
                   initState, initLaunches, replLaunches, launchFailed, nextId, engine,
                   tickClosing, shutState, faults, abandoned, outcome, settles, ahead>>

\* the setTimeout of waitForAvailable fires: splice the entry out and reject
QueueTimeout(r) ==
    /\ r \in timers
    /\ timers' = timers \ {r}
    /\ queue' = removePending(queue, r)
    /\ settles' = [settles EXCEPT ![r] = settles[r] + 1]
    /\ IF pc[r] = "queued"
       THEN /\ ticket' = [ticket EXCEPT ![r] = 0]
            /\ pc' = [pc EXCEPT ![r] = "done"]
            /\ outcome' = [outcome EXCEPT ![r] = TimeoutMessage]
            /\ abandoned' = [abandoned EXCEPT ![r] = FALSE]
            /\ ahead' = [ahead EXCEPT ![r] = {}]
       ELSE UNCHANGED <<ticket, pc, outcome, abandoned, ahead>>
    /\ UNCHANGED <<opts, instances, isHealthy, contextCounts, healthCheckTimer,
                   isShuttingDown, initState, initLaunches, replLaunches, launchFailed, nextId,
                   engine, tickClosing, shutState, faults, inst, released, claimed>>

\* render's withTimeout(pool.acquire(...), 35000) fires while acquire is pending:
\* render returns a TIMEOUT response; acquire itself keeps running
AcquireTimeout(r) ==
    /\ pc[r] \in {"init", "launching", "queued", "creating"}
    /\ ~abandoned[r]
    /\ abandoned' = [abandoned EXCEPT ![r] = TRUE]
    /\ UNCHANGED <<poolVars, pc, inst, outcome, settles, released, ahead, claimed, ticket, timers>>

\* shutdown() up to `await Promise.all(closePromises)`
ShutdownStart ==
    /\ ~isShuttingDown
    /\ isShuttingDown' = TRUE
    /\ healthCheckTimer' = FALSE
    /\ queue' = <<>>
    /\ pc' = [r \in Reqs |-> IF r \in Range(queue) THEN "done" ELSE pc[r]]
    /\ outcome' = [r \in Reqs |-> IF r \in Range(queue) THEN QueueShutdownMessage
                                                       ELSE outcome[r]]
    /\ settles' = [r \in Reqs |-> IF r \in Range(queue) THEN settles[r] + 1
                                                       ELSE settles[r]]
    /\ timers' = timers \ Range(queue)
    /\ abandoned' = [r \in Reqs |-> IF r \in Range(queue) THEN FALSE ELSE abandoned[r]]
    /\ ahead' = [r \in Reqs |-> IF r \in Range(queue) THEN {} ELSE ahead[r]]
    /\ ticket' = [r \in Reqs |-> 0]
    /\ engine' = [i \in Ids |-> IF i \in Range(instances) /\ engine[i] = "up"
                                THEN "dying" ELSE engine[i]]
    /\ shutState' = "closing"
    /\ UNCHANGED <<opts, instances, isHealthy, contextCounts, initState,
                   initLaunches, replLaunches, launchFailed, nextId, tickClosing, faults, inst,
                   released, claimed>>

\* shutdown() after the closes: clear both maps
ShutdownFinish ==
    /\ shutState = "closing"
    /\ shutState' = "done"
    /\ instances' = <<>>
    /\ contextCounts' = <<>>
    /\ UNCHANGED <<opts, isHealthy, queue, healthCheckTimer, isShuttingDown,
                   initState, initLaunches, replLaunches, launchFailed, nextId, engine,
                   tickClosing, faults, reqVars>>

\* the engine and the pool's housekeeping
PoolNext ==
    \/ ServerInitialize /\ UNCHANGED <<renderVars, apiVars, utilVars>>
    \/ \E ok \in BOOLEAN : InitLaunchDone(ok) /\ UNCHANGED <<renderVars, apiVars, serverVars, utilVars>>
    \/ InitFinish /\ UNCHANGED <<renderVars, apiVars, utilVars>>
    \/ \E id \in Ids : EngineDisconnect(id) /\ UNCHANGED <<renderVars, apiVars, serverVars, utilVars>>
    \/ \E ok \in BOOLEAN : ReplLaunchDone(ok) /\ UNCHANGED <<renderVars, apiVars, serverVars, utilVars>>
    \/ \E id \in Ids : HealthTickDisconnected(id) /\ UNCHANGED <<renderVars, apiVars, serverVars, utilVars>>
    \/ \E id \in Ids : HealthTickIdleStart(id) /\ UNCHANGED <<renderVars, apiVars, serverVars, utilVars>>
    \/ \E id \in Ids, ok \in BOOLEAN : HealthTickIdleFinish(id, ok) /\ UNCHANGED <<renderVars, apiVars, serverVars, utilVars>>

\* the render requests, their timers, and the server's shutdown
ReqNext ==
    \/ \E r \in Reqs : Start(r) /\ UNCHANGED <<renderVars, apiVars, serverVars, utilVars>>
    \/ \E r \in Reqs : AcquireResume(r) /\ UNCHANGED <<renderVars, apiVars, serverVars, utilVars>>
    \/ \E r \in Reqs, ok \in BOOLEAN : ReqLaunchDone(r, ok) /\ UNCHANGED <<renderVars, apiVars, serverVars, utilVars>>
    \/ \E r \in Reqs, ok \in BOOLEAN : CreateDone(r, ok) /\ UNCHANGED <<renderVars, apiVars, serverVars, utilVars>>
    \/ \E r \in Reqs, how \in ExitPaths : PipelineEnd(r, how) /\ UNCHANGED <<renderVars, apiVars, serverVars, utilVars>>
    \/ \E r \in Reqs : CleanupFinish(r) /\ UNCHANGED <<renderVars, apiVars, serverVars, utilVars>>
    \/ \E r \in Reqs : QueueTimeout(r) /\ UNCHANGED <<renderVars, apiVars, serverVars, utilVars>>
    \/ \E r \in Reqs : AcquireTimeout(r) /\ UNCHANGED <<renderVars, apiVars, serverVars, utilVars>>
    \/ \E id \in Ids : DisconnectedEvent(id) /\ UNCHANGED <<renderVars, apiVars, serverVars, utilVars>>
    \/ ShutdownStart /\ UNCHANGED <<renderVars, apiVars, serverVars, utilVars>>
    \/ ShutdownFinish /\ UNCHANGED <<renderVars, apiVars, serverVars, utilVars>>

Next == PoolNext \/ ReqNext

Spec == Init /\ [][Next]_vars

\* the pool after its initialisation, with one browser that stays the only one
\* while it lives: what can happen to requests that find every slot leased
QueueNext ==
    \/ \E r \in Reqs : Start(r) /\ UNCHANGED <<renderVars, apiVars, serverVars, utilVars>>
    \/ \E r \in Reqs, ok \in BOOLEAN : ReqLaunchDone(r, ok) /\ UNCHANGED <<renderVars, apiVars, serverVars, utilVars>>
    \/ \E r \in Reqs, ok \in BOOLEAN : CreateDone(r, ok) /\ UNCHANGED <<renderVars, apiVars, serverVars, utilVars>>
    \/ \E r \in Reqs, how \in ExitPaths : PipelineEnd(r, how) /\ UNCHANGED <<renderVars, apiVars, serverVars, utilVars>>
    \/ \E r \in Reqs : CleanupFinish(r) /\ UNCHANGED <<renderVars, apiVars, serverVars, utilVars>>
    \/ \E r \in Reqs : QueueTimeout(r) /\ UNCHANGED <<renderVars, apiVars, serverVars, utilVars>>
    \/ \E r \in Reqs : AcquireTimeout(r) /\ UNCHANGED <<renderVars, apiVars, serverVars, utilVars>>
    \/ \E id \in Ids : EngineDisconnect(id) /\ UNCHANGED <<renderVars, apiVars, serverVars, utilVars>>
    \/ \E id \in Ids : DisconnectedEvent(id) /\ UNCHANGED <<renderVars, apiVars, serverVars, utilVars>>
    \/ \E ok \in BOOLEAN : ReplLaunchDone(ok) /\ UNCHANGED <<renderVars, apiVars, serverVars, utilVars>>
    \/ \E id \in Ids : HealthTickDisconnected(id) /\ UNCHANGED <<renderVars, apiVars, serverVars, utilVars>>
    \/ ShutdownStart /\ UNCHANGED <<renderVars, apiVars, serverVars, utilVars>>
    \/ ShutdownFinish /\ UNCHANGED <<renderVars, apiVars, serverVars, utilVars>>

\* chromium.launch settles: a launch that is awaited does not stay pending
\* for ever
SpecFair ==
    /\ Init
    /\ [][Next]_vars
    /\ WF_vars(\E ok \in BOOLEAN :
                  InitLaunchDone(ok) /\ UNCHANGED <<renderVars, apiVars, serverVars, utilVars>>)
    /\ WF_vars(\E ok \in BOOLEAN :
                  ReplLaunchDone(ok) /\ UNCHANGED <<renderVars, apiVars, serverVars, utilVars>>)

SpecQueue == InitSaturated /\ [][QueueNext]_vars

\* ---------------------------------------------------------------- double release
\* a holder calls the lease's cleanup a second time: the same closure runs again
ReleaseAgain(r) ==
    /\ pc[r] = "done"
    /\ released[r] = 1
    /\ cleanup(r, inst[r])
    /\ UNCHANGED <<opts, instances, isHealthy, healthCheckTimer, isShuttingDown,
                   initState, initLaunches, replLaunches, launchFailed, nextId, engine,
                   tickClosing, shutState, faults, abandoned, outcome, settles, ahead>>

NextDouble ==
    \/ PoolNext
    \/ ReqNext
    \/ \E r \in Reqs : ReleaseAgain(r) /\ UNCHANGED <<renderVars, apiVars, serverVars, utilVars>>

SpecDouble == Init /\ [][NextDouble]_vars

\* ---------------------------------------------------------------- timed pipeline
\* One request followed through handleRender, renderWithTimeout and render
\* with a clock.  The pool is seen from outside: acquire settles at any time
\* with a lease or an error.  A timer fires when its delay has elapsed: the
\* clock does not pass the deadline of a timer that is armed and still matters.

\* values of render.timeout_ms: not given, the validator's minimum, the
\* integration test's value, the default
TimeoutChoices == {0, 1000, 5000, 30000}

\* variant: the buffer is added twice
maxTimeoutTwice(t) ==
    (IF t = 0 THEN DefaultTimeoutMs ELSE t) + TimeoutBufferMs + TimeoutBufferMs

\* handleRender: maxTimeout = (renderRequest.render?.timeout_ms || 30000) + 30000
maxTimeout(t) == (IF t = 0 THEN DefaultTimeoutMs ELSE t) + TimeoutBufferMs

\* renderWithTimeout: the delay it hands to withTimeout
renderWithTimeoutDelay(maxTimeoutMs) == maxTimeoutMs

OuterDeadline == rStart + renderWithTimeoutDelay(maxTimeout(rTimeoutMs))
AcquireDeadline == rStart + AcquireTimeoutMs

\* the stages of render's inner try block, in order
Stages == <<"navigate", "stabilize", "js_code", "wait_for", "scroll", "detect",
            "extract", "debug">>

StageAfter(st) ==
    LET k == CHOOSE j \in 1..Len(Stages) : Stages[j] = st
    IN IF k = Len(Stages) THEN "cleanup" ELSE Stages[k + 1]

\* the code render's catch derives from an error message
CatchCodes == {"TIMEOUT", "PROXY_ERROR", "BROWSER_ERROR", "RENDER_FAILED"}

\* loadPage: the timeout_ms of the completed request (defaults.render.timeout_ms)
navTimeout(t) == IF t = 0 THEN DefaultTimeoutMs ELSE t

\* page.goto gives up from NavTimeoutAt on; the wrapper's timer fires at NavDeadline
NavTimeoutAt == rNavStart + navTimeout(rTimeoutMs)
NavDeadline == rNavStart + navTimeout(rTimeoutMs) + NavBufferMs

OuterArmed == rStage # "idle" /\ rResp = "none"
AcquireArmed == rStage = "acquire"
NavArmed == rStage = "navigate"

InitRender ==
    /\ Init
    /\ opts = [minBrowsers |-> 1, maxBrowsers |-> 1, maxContextsPerBrowser |-> 1]

\* render() returns res: the outer race settles with it unless the timer has
\* already settled it
renderReturns(res) ==
    /\ rStage' = "returned"
    /\ rResult' = res
    /\ IF rResp = "none"
       THEN /\ rResp' = res
            /\ rRespAt' = rnow
            /\ rWinner' = "render"
       ELSE UNCHANGED <<rResp, rRespAt, rWinner>>

\* handleRender calls renderWithTimeout(requestId, request, maxTimeout)
RenderCall(t) ==
    /\ rStage = "idle"
    /\ rTimeoutMs' = t
    /\ rStart' = rnow
    /\ rStage' = "acquire"
    /\ UNCHANGED <<rnow, rResult, rResp, rRespAt, rWinner, rNavStart, rWhy, rLease>>

\* pool.acquire resolves with a lease; loadPage starts the navigation
AcquireLease ==
    /\ rStage = "acquire"
    /\ rStage' = "navigate"
    /\ rNavStart' = rnow
    /\ rLease' = "held"
    /\ UNCHANGED <<rnow, rTimeoutMs, rStart, rResult, rResp, rRespAt, rWinner, rWhy>>

\* pool.acquire rejects (queue timeout, shutdown, context creation): render's
\* catch, which answers TIMEOUT exactly when the message speaks of a timeout
AcquireRejects(code) ==
    /\ rStage = "acquire"
    /\ renderReturns(code)
    /\ rWhy' = IF code = "TIMEOUT" THEN "timeout" ELSE "other"
    /\ UNCHANGED <<rnow, rTimeoutMs, rStart, rNavStart, rLease>>

\* the 35 s timer of render's withTimeout fires first: render's catch, TIMEOUT
AcquireTimerFires ==
    /\ AcquireArmed
    /\ rnow >= AcquireDeadline
    /\ renderReturns("TIMEOUT")
    /\ rWhy' = "timeout"
    /\ UNCHANGED <<rnow, rTimeoutMs, rStart, rNavStart, rLease>>

\* variant: a navigation failure is reported with the code of render's catch
navigationFailedAsTimeout == "TIMEOUT"

\* render: the code of the early return on !navigationResult.success
navigationFailed == "NAVIGATION_FAILED"

\* loadPage reports a failure that is no timeout: the early return, then the
\* finally
NavigationFails ==
    /\ rStage = "navigate"
    /\ rStage' = "cleanup"
    /\ rResult' = navigationFailed
    /\ rWhy' = "other"
    /\ UNCHANGED <<rnow, rTimeoutMs, rStart, rResp, rRespAt, rWinner, rNavStart, rLease>>

\* the navigation has not completed within timeout_ms: page.goto rejects, or
\* the wrapper's timer fires; loadPage's catch returns success: false, render
\* takes the early return, then the finally
NavigationTimesOut ==
    /\ rStage = "navigate"
    /\ rnow >= NavTimeoutAt
    /\ rStage' = "cleanup"
    /\ rResult' = navigationFailed
    /\ rWhy' = "navigation_timeout"
    /\ UNCHANGED <<rnow, rTimeoutMs, rStart, rResp, rRespAt, rWinner, rNavStart, rLease>>

\* a stage completes; the navigation completes within timeout_ms only
StageDone ==
    /\ rStage \in Range(Stages)
    /\ rStage = "navigate" => rnow <= NavTimeoutAt
    /\ rStage' = StageAfter(rStage)
    /\ rResult' = IF rStage' = "cleanup" THEN "ok" ELSE rResult
    /\ UNCHANGED <<rnow, rTimeoutMs, rStart, rResp, rRespAt, rWinner, rNavStart, rWhy,
                   rLease>>

\* a stage throws: the finally, then render's catch
StageThrows(code) ==
    /\ rStage \in Range(Stages)
    /\ rStage' = "cleanup"
    /\ rResult' = code
    /\ rWhy' = IF code = "TIMEOUT" THEN "timeout" ELSE "other"
    /\ UNCHANGED <<rnow, rTimeoutMs, rStart, rResp, rRespAt, rWinner, rNavStart, rLease>>

\* the finally's cleanup() completes and render returns
CleanupReturns ==
    /\ rStage = "cleanup"
    /\ renderReturns(rResult)
    /\ rLease' = "released"
    /\ UNCHANGED <<rnow, rTimeoutMs, rStart, rNavStart, rWhy>>

\* the timer of renderWithTimeout's withTimeout fires first: its catch
OuterTimerFires ==
    /\ OuterArmed
    /\ rnow >= OuterDeadline
    /\ rResp' = "TOTAL_TIMEOUT"
    /\ rRespAt' = rnow
    /\ rWinner' = "timer"
    /\ UNCHANGED <<rnow, rTimeoutMs, rStart, rStage, rResult, rNavStart, rWhy, rLease>>

\* time passes, by at most 5 s and not beyond the next armed deadline; it
\* stops at the moment page.goto may give up
Tick ==
    LET due == (IF OuterArmed THEN {OuterDeadline} ELSE {})
                   \cup (IF AcquireArmed THEN {AcquireDeadline} ELSE {})
                   \cup (IF NavArmed THEN {NavDeadline} ELSE {})
        stops == due \cup (IF NavArmed THEN {NavTimeoutAt} ELSE {})
        later == {d \in stops : d > rnow} \cup {rnow + 5000}
        to == CHOOSE d \in later : \A e \in later : d <= e
    IN /\ rnow < MaxTime
       /\ \A d \in due : d > rnow
       /\ rnow' = to
       /\ UNCHANGED <<rTimeoutMs, rStart, rStage, rResult, rResp, rRespAt, rWinner,
                      rNavStart, rWhy, rLease>>

RenderNext ==
    \/ \E t \in TimeoutChoices : RenderCall(t) /\ UNCHANGED <<poolVars, reqVars, apiVars, serverVars, utilVars>>
    \/ AcquireLease /\ UNCHANGED <<poolVars, reqVars, apiVars, serverVars, utilVars>>
    \/ \E code \in CatchCodes : AcquireRejects(code) /\ UNCHANGED <<poolVars, reqVars, apiVars, serverVars, utilVars>>
    \/ AcquireTimerFires /\ UNCHANGED <<poolVars, reqVars, apiVars, serverVars, utilVars>>
    \/ NavigationFails /\ UNCHANGED <<poolVars, reqVars, apiVars, serverVars, utilVars>>
    \/ NavigationTimesOut /\ UNCHANGED <<poolVars, reqVars, apiVars, serverVars, utilVars>>
    \/ StageDone /\ UNCHANGED <<poolVars, reqVars, apiVars, serverVars, utilVars>>
    \/ \E code \in CatchCodes : StageThrows(code) /\ UNCHANGED <<poolVars, reqVars, apiVars, serverVars, utilVars>>
    \/ CleanupReturns /\ UNCHANGED <<poolVars, reqVars, apiVars, serverVars, utilVars>>
    \/ OuterTimerFires /\ UNCHANGED <<poolVars, reqVars, apiVars, serverVars, utilVars>>
    \/ Tick /\ UNCHANGED <<poolVars, reqVars, apiVars, serverVars, utilVars>>

SpecRender == InitRender /\ [][RenderNext]_vars

\* ---------------------------------------------------------------- graceful shutdown
\* The request of SpecRender in a server that is listening, with the handlers
\* of SIGTERM and SIGINT registered, and one signal.

\* the HTTP request is being handled: handleRender has not sent its reply
HttpInFlight == rStage # "idle" /\ rResp = "none"

\* render() has been called and has not returned
PipelineInFlight == rStage \notin {"idle", "returned"}

\* SIGTERM or SIGINT: shutdown(signal) calls app.close(), which stops the
\* server from accepting
Signal ==
    /\ sdState = "serving"
    /\ sdState' = "closing"
    /\ UNCHANGED exitCode

\* app.close() settles when no HTTP request is being handled
closeSettles == ~HttpInFlight

\* app.close() settles: on success shutdown goes on to shutdownBrowserPool(),
\* on failure its catch exits with 1
AppClosed(ok) ==
    /\ sdState = "closing"
    /\ closeSettles
    /\ IF ok
       THEN sdState' = "poolShutdown" /\ UNCHANGED exitCode
       ELSE sdState' = "exited" /\ exitCode' = 1

\* shutdownBrowserPool() resolves: process.exit(0)
PoolClosed ==
    /\ sdState = "poolShutdown"
    /\ sdState' = "exited"
    /\ exitCode' = 0

\* the process runs until process.exit; a closed server takes no new request
ShutdownNext ==
    \/ \E t \in TimeoutChoices : RenderCall(t) /\ sdState = "serving" /\ UNCHANGED <<poolVars, reqVars, apiVars, serverVars, utilVars>>
    \/ AcquireLease /\ sdState # "exited" /\ UNCHANGED <<poolVars, reqVars, apiVars, serverVars, utilVars>>
    \/ \E code \in CatchCodes : AcquireRejects(code) /\ sdState # "exited" /\ UNCHANGED <<poolVars, reqVars, apiVars, serverVars, utilVars>>
    \/ AcquireTimerFires /\ sdState # "exited" /\ UNCHANGED <<poolVars, reqVars, apiVars, serverVars, utilVars>>
    \/ NavigationFails /\ sdState # "exited" /\ UNCHANGED <<poolVars, reqVars, apiVars, serverVars, utilVars>>
    \/ NavigationTimesOut /\ sdState # "exited" /\ UNCHANGED <<poolVars, reqVars, apiVars, serverVars, utilVars>>
    \/ StageDone /\ sdState # "exited" /\ UNCHANGED <<poolVars, reqVars, apiVars, serverVars, utilVars>>
    \/ \E code \in CatchCodes : StageThrows(code) /\ sdState # "exited" /\ UNCHANGED <<poolVars, reqVars, apiVars, serverVars, utilVars>>
    \/ CleanupReturns /\ sdState # "exited" /\ UNCHANGED <<poolVars, reqVars, apiVars, serverVars, utilVars>>
    \/ OuterTimerFires /\ sdState # "exited" /\ UNCHANGED <<poolVars, reqVars, apiVars, serverVars, utilVars>>
    \/ Tick /\ sdState # "exited" /\ UNCHANGED <<poolVars, reqVars, apiVars, serverVars, utilVars>>
    \/ Signal /\ UNCHANGED <<poolVars, reqVars, renderVars, apiVars, serverVars, pipeVars, scrollVars, proxyVars>>
    \/ \E ok \in BOOLEAN : AppClosed(ok) /\ UNCHANGED <<poolVars, reqVars, renderVars, apiVars, serverVars, pipeVars, scrollVars, proxyVars>>
    \/ PoolClosed /\ UNCHANGED <<poolVars, reqVars, renderVars, apiVars, serverVars, pipeVars, scrollVars, proxyVars>>

SpecShutdown == InitRender /\ [][ShutdownNext]_vars

\* ---------------------------------------------------------------- proxy
\* One call of createContext with a proxy config that passed the request
\* schema (server a string of at least one character).  The server string is
\* kept by what parseProxy tells apart:
\*   "absent"   no proxy in the request
\*   "blank"    white space only
\*   "bare"     host[:port] without a protocol
\*   "http", "https", "socks5"   protocol://host[:port]
\*   "ftp"      a URL with another protocol
\*   "nohost"   socks5:// without a host
\*   "invalid"  text that new URL() rejects
\* username and password tell whether the config or the URL gives one.
ServerKinds == {"absent", "blank", "bare", "http", "https", "socks5", "ftp", "nohost",
                "invalid"}
ProxyConfigs ==
    {c \in [server : ServerKinds, port : 0..MaxPort, username : BOOLEAN,
            password : BOOLEAN] :
        c.server = "absent" => c = NoProxy}

\* hasProxy(config): a server that is not blank
hasProxy(cfg) == cfg.server \notin {"absent", "blank"}

\* parseProxy(config): valid with the parsed proxy, or not valid
parseProxy(cfg) ==
    LET protocol == IF cfg.server = "bare" THEN "http"
                    ELSE IF cfg.server = "nohost" THEN "socks5"
                    ELSE cfg.server
        port == IF cfg.port # 0 THEN cfg.port
                ELSE IF protocol = "https" THEN DefaultHttpsPort ELSE DefaultProxyPort
        invalid == [valid |-> FALSE, protocol |-> "", port |-> 0, username |-> FALSE,
                    password |-> FALSE]
    IN IF cfg.server \in {"absent", "blank", "invalid"} THEN invalid
       ELSE IF protocol \notin {"http", "https", "socks5"} THEN invalid
       ELSE IF cfg.server = "nohost" THEN invalid
       ELSE IF cfg.username # cfg.password THEN invalid
       ELSE [valid |-> TRUE, protocol |-> protocol, port |-> port,
             username |-> cfg.username, password |-> cfg.password]

\* toPlaywrightProxy(config): the proxy option, or null
toPlaywrightProxy(cfg) ==
    LET result == parseProxy(cfg)
    IN IF ~result.valid THEN NoPlaywrightProxy
       ELSE [set |-> TRUE, protocol |-> result.protocol, port |-> result.port,
             auth |-> result.username /\ result.password]

\* createContext up to `await browser.newContext`: the flag is hasProxy, the
\* proxy option is set when toPlaywrightProxy returns one
CreateContextCall(cfg) ==
    /\ pxPc = "idle"
    /\ pxConfig' = cfg
    /\ proxyUsed' = hasProxy(cfg)
    /\ playwrightProxy' = IF hasProxy(cfg) THEN toPlaywrightProxy(cfg)
                                           ELSE NoPlaywrightProxy
    /\ pxPc' = "creating"

\* browser.newContext and the rest of createContext settle
ContextCreated(ok) ==
    /\ pxPc = "creating"
    /\ pxPc' = IF ok THEN "created" ELSE "failed"
    /\ UNCHANGED <<pxConfig, proxyUsed, playwrightProxy>>

ProxyNext ==
    \/ \E cfg \in ProxyConfigs :
          CreateContextCall(cfg) /\ UNCHANGED <<poolVars, reqVars, renderVars, apiVars, serverVars, pipeVars, scrollVars, sigVars>>
    \/ \E ok \in BOOLEAN :
          ContextCreated(ok) /\ UNCHANGED <<poolVars, reqVars, renderVars, apiVars, serverVars, pipeVars, scrollVars, sigVars>>

SpecProxy == InitRender /\ [][ProxyNext]_vars

\* ---------------------------------------------------------------- pipeline stages
\* One request followed through render stage by stage, without a clock: which
\* stages run, what their failures do, and the response that is built.

\* the completed requests: wait_until = networkidle or not, the number of
\* js_code scripts, wait_for given or not, scroll.enabled, debug.screenshot
Configs ==
    [networkidle : BOOLEAN, js_code : 0..MaxScripts, wait_for : BOOLEAN,
     scroll : BOOLEAN, screenshot : BOOLEAN]

\* variant: the stabilisation runs whatever wait_until is
stageWantedAlways(cfg, st) ==
    CASE st = "js_code" -> cfg.js_code > 0
      [] st = "wait_for" -> cfg.wait_for
      [] st = "scroll" -> cfg.scroll
      [] OTHER -> TRUE

\* render: the conditions under which a stage of the inner try block runs
stageWanted(cfg, st) ==
    CASE st = "stabilize" -> cfg.networkidle
      [] st = "js_code" -> cfg.js_code > 0
      [] st = "wait_for" -> cfg.wait_for
      [] st = "scroll" -> cfg.scroll
      [] OTHER -> TRUE

\* the stage render goes to when stage number k is over
RECURSIVE stageFrom(_, _)
stageFrom(cfg, k) ==
    IF k > Len(Stages) THEN "cleanup"
    ELSE IF stageWanted(cfg, Stages[k]) THEN Stages[k]
    ELSE stageFrom(cfg, k + 1)

nextStage(cfg, st) ==
    stageFrom(cfg, 1 + CHOOSE j \in 1..Len(Stages) : Stages[j] = st)

\* variant: an error response that keeps a content
createErrorResponseWithContent(code) ==
    [NoResponse EXCEPT !.made = TRUE, !.request_id = "requestId",
                       !.contentNull = FALSE, !.errorsNull = FALSE,
                       !.errors = <<code>>, !.timestamp = "toISOString"]

\* createErrorResponse(requestId, code, message, details)
createErrorResponse(code) ==
    [NoResponse EXCEPT !.made = TRUE, !.request_id = "requestId",
                       !.errorsNull = FALSE, !.errors = <<code>>,
                       !.timestamp = "toISOString"]

\* render: the response built after the last stage
successResponse(shot, detection) ==
    [made |-> TRUE, success |-> TRUE, request_id |-> "requestId",
     contentNull |-> FALSE, html |-> TRUE, screenshot |-> shot,
     metaNull |-> FALSE, captcha_detected |-> detection.captchaDetected,
     blocked |-> detection.blocked, errorsNull |-> TRUE, errors |-> <<>>,
     timestamp |-> "toISOString"]

\* the outer race of renderWithTimeout settles with what render returns unless
\* its timer has settled it
pipelineReturns(res) ==
    /\ pStage' = "returned"
    /\ pResult' = res
    /\ pAnswer' = IF pAnswer.made THEN pAnswer ELSE res

\* renderWithTimeout calls render, which calls pool.acquire
PRenderCall(cfg) ==
    /\ pStage = "idle"
    /\ pStage' = "acquire"
    /\ pConfig' = cfg
    /\ UNCHANGED <<pRan, pScripts, pSoft, pDetect, pResult, pAnswer>>

\* the acquisition resolves with a lease: loadPage is called
PAcquired ==
    /\ pStage = "acquire"
    /\ pStage' = "navigate"
    /\ pRan' = Append(pRan, "acquire")
    /\ UNCHANGED <<pConfig, pScripts, pSoft, pDetect, pResult, pAnswer>>

\* the acquisition rejects or its 35 s timer fires: render's catch
PAcquireFails(code) ==
    /\ pStage = "acquire"
    /\ pRan' = Append(pRan, "acquire")
    /\ pipelineReturns(createErrorResponse(code))
    /\ UNCHANGED <<pConfig, pScripts, pSoft, pDetect>>

\* loadPage returns: on success the next stage, otherwise the early return
\* with NAVIGATION_FAILED, which the finally follows
PNavigate(ok) ==
    /\ pStage = "navigate"
    /\ pRan' = Append(pRan, "navigate")
    /\ IF ok
       THEN /\ pStage' = nextStage(pConfig, "navigate")
            /\ UNCHANGED pResult
       ELSE /\ pStage' = "cleanup"
            /\ pResult' = createErrorResponse(navigationFailed)
    /\ UNCHANGED <<pConfig, pScripts, pSoft, pDetect, pAnswer>>

\* the stages whose awaits render does not guard: waitForStability,
\* performScroll and extractHtml evaluate in the page without a try
ThrowingStages == {"stabilize", "scroll", "extract"}

\* one of them completes
PStageDone ==
    /\ pStage \in ThrowingStages
    /\ pRan' = Append(pRan, pStage)
    /\ pStage' = nextStage(pConfig, pStage)
    /\ UNCHANGED <<pConfig, pScripts, pSoft, pDetect, pResult, pAnswer>>

\* one of them throws: the finally, then render's catch
PStageThrows(code) ==
    /\ pStage \in ThrowingStages
    /\ pRan' = Append(pRan, pStage)
    /\ pStage' = "cleanup"
    /\ pResult' = createErrorResponse(code)
    /\ UNCHANGED <<pConfig, pScripts, pSoft, pDetect, pAnswer>>

\* variant: a script that throws ends the render
scriptThrowsRethrown(ok) == IF ok THEN "next" ELSE "throw"

\* executeJsCode: the catch around the loop over the scripts
scriptThrows(ok) == IF ok THEN "next" ELSE "caught"

\* executeJsCode evaluates one script: the next one follows, or the catch
\* ends the loop, and render goes on either way
PScript(ok) ==
    /\ pStage = "js_code"
    /\ pScripts' = pScripts + 1
    /\ pRan' = IF pScripts = 0 THEN Append(pRan, "js_code") ELSE pRan
    /\ pSoft' = IF ok THEN pSoft ELSE pSoft \cup {"js_code"}
    /\ IF scriptThrows(ok) = "throw"
       THEN /\ pStage' = "cleanup"
            /\ pResult' = createErrorResponse("RENDER_FAILED")
       ELSE /\ pStage' = IF ok /\ pScripts + 1 < pConfig.js_code
                         THEN "js_code" ELSE nextStage(pConfig, "js_code")
            /\ UNCHANGED pResult
    /\ UNCHANGED <<pConfig, pDetect, pAnswer>>

\* executeWaitFor returns, with success or with the failure its catch reports
PWaitFor(ok) ==
    /\ pStage = "wait_for"
    /\ pRan' = Append(pRan, "wait_for")
    /\ pSoft' = IF ok THEN pSoft ELSE pSoft \cup {"wait_for"}
    /\ pStage' = nextStage(pConfig, "wait_for")
    /\ UNCHANGED <<pConfig, pScripts, pDetect, pResult, pAnswer>>

\* what a detector finds, or that it throws
Findings == {"yes", "no", "throws"}

\* performDetection: both detectors catch their own failures and report
\* nothing detected
PDetect(captcha, block) ==
    /\ pStage = "detect"
    /\ pRan' = Append(pRan, "detect")
    /\ pDetect' = [captchaDetected |-> captcha = "yes", blocked |-> block = "yes"]
    /\ pSoft' = pSoft \cup (IF captcha = "throws" THEN {"captcha"} ELSE {})
                      \cup (IF block = "throws" THEN {"block"} ELSE {})
    /\ pStage' = nextStage(pConfig, "detect")
    /\ UNCHANGED <<pConfig, pScripts, pResult, pAnswer>>

\* captureDebugArtifacts: the screenshot when debug.screenshot asks for it
\* and page.screenshot succeeds; then the response is built, then the finally
PDebug(ok) ==
    /\ pStage = "debug"
    /\ pRan' = Append(pRan, "debug")
    /\ pSoft' = IF pConfig.screenshot /\ ~ok THEN pSoft \cup {"screenshot"} ELSE pSoft
    /\ pResult' = successResponse(pConfig.screenshot /\ ok, pDetect)
    /\ pStage' = "cleanup"
    /\ UNCHANGED <<pConfig, pScripts, pDetect, pAnswer>>

\* the finally's cleanup() completes and render returns
PCleanup ==
    /\ pStage = "cleanup"
    /\ pRan' = Append(pRan, "release")
    /\ pipelineReturns(pResult)
    /\ UNCHANGED <<pConfig, pScripts, pSoft, pDetect>>

\* the timer of renderWithTimeout fires before render has returned
POuterTimer ==
    /\ pStage \notin {"idle", "returned"}
    /\ ~pAnswer.made
    /\ pAnswer' = createErrorResponse("TOTAL_TIMEOUT")
    /\ UNCHANGED <<pConfig, pStage, pRan, pScripts, pSoft, pDetect, pResult>>

PipelineNext ==
    \/ \E cfg \in Configs : PRenderCall(cfg) /\ UNCHANGED <<poolVars, reqVars, renderVars, apiVars, serverVars, scrollVars, sigVars, proxyVars>>
    \/ PAcquired /\ UNCHANGED <<poolVars, reqVars, renderVars, apiVars, serverVars, scrollVars, sigVars, proxyVars>>
    \/ \E code \in CatchCodes : PAcquireFails(code) /\ UNCHANGED <<poolVars, reqVars, renderVars, apiVars, serverVars, scrollVars, sigVars, proxyVars>>
    \/ \E ok \in BOOLEAN : PNavigate(ok) /\ UNCHANGED <<poolVars, reqVars, renderVars, apiVars, serverVars, scrollVars, sigVars, proxyVars>>
    \/ PStageDone /\ UNCHANGED <<poolVars, reqVars, renderVars, apiVars, serverVars, scrollVars, sigVars, proxyVars>>
    \/ \E code \in CatchCodes : PStageThrows(code) /\ UNCHANGED <<poolVars, reqVars, renderVars, apiVars, serverVars, scrollVars, sigVars, proxyVars>>
    \/ \E ok \in BOOLEAN : PScript(ok) /\ UNCHANGED <<poolVars, reqVars, renderVars, apiVars, serverVars, scrollVars, sigVars, proxyVars>>
    \/ \E ok \in BOOLEAN : PWaitFor(ok) /\ UNCHANGED <<poolVars, reqVars, renderVars, apiVars, serverVars, scrollVars, sigVars, proxyVars>>
    \/ \E c, b \in Findings : PDetect(c, b) /\ UNCHANGED <<poolVars, reqVars, renderVars, apiVars, serverVars, scrollVars, sigVars, proxyVars>>
    \/ \E ok \in BOOLEAN : PDebug(ok) /\ UNCHANGED <<poolVars, reqVars, renderVars, apiVars, serverVars, scrollVars, sigVars, proxyVars>>
    \/ PCleanup /\ UNCHANGED <<poolVars, reqVars, renderVars, apiVars, serverVars, scrollVars, sigVars, proxyVars>>
    \/ POuterTimer /\ UNCHANGED <<poolVars, reqVars, renderVars, apiVars, serverVars, scrollVars, sigVars, proxyVars>>

SpecPipeline == InitRender /\ [][PipelineNext]_vars

\* ---------------------------------------------------------------- scroll
\* One call of performScroll.  The page is seen from outside: each sample of
\* its height, of whether its content has grown and of whether the viewport
\* is at the bottom is an input.
ScrollConfigs == [enabled : BOOLEAN, max_scrolls : 1..MaxScrolls]
Heights == 1..MaxHeight

\* performScroll is called: the early return when scrolling is disabled,
\* otherwise the initial sample
ScrollCall(cfg, height) ==
    /\ sPc = "idle"
    /\ sConfig' = cfg
    /\ IF ~cfg.enabled
       THEN /\ sPc' = "done"
            /\ sResult' = [returned |-> TRUE, scrollsPerformed |-> 0, contentChanges |-> 0]
            /\ UNCHANGED previousHeight
       ELSE /\ sPc' = "loop"
            /\ previousHeight' = height
            /\ UNCHANGED sResult
    /\ UNCHANGED <<sIter, scrollsPerformed, contentChanges, sBroke>>

\* variant: an iteration that is not at the bottom does not advance i
afterIterationStuck(i) == i

\* the for loop's i++
afterIteration(i) == i + 1

\* one iteration up to the check of the bottom: scroll, count it, sample the
\* page, count new content, and either go on to the overshoot or to i++
ScrollStep(height, grew, atBottom) ==
    /\ sPc = "loop"
    /\ ~sBroke
    /\ sIter < sConfig.max_scrolls
    /\ scrollsPerformed' = scrollsPerformed + 1
    /\ IF height > previousHeight \/ grew
       THEN /\ contentChanges' = contentChanges + 1
            /\ previousHeight' = height
       ELSE UNCHANGED <<contentChanges, previousHeight>>
    /\ IF atBottom
       THEN /\ sPc' = "overshoot"
            /\ UNCHANGED sIter
       ELSE /\ sPc' = "loop"
            /\ sIter' = afterIteration(sIter)
    /\ UNCHANGED <<sConfig, sBroke, sResult>>

\* the overshoot has been waited for: break when the height has not grown,
\* otherwise count the new content and go on to i++
ScrollOvershoot(newHeight) ==
    /\ sPc = "overshoot"
    /\ IF newHeight <= previousHeight
       THEN /\ sBroke' = TRUE
            /\ UNCHANGED <<sIter, contentChanges, previousHeight>>
       ELSE /\ contentChanges' = contentChanges + 1
            /\ previousHeight' = newHeight
            /\ sIter' = afterIteration(sIter)
            /\ UNCHANGED sBroke
    /\ sPc' = "loop"
    /\ UNCHANGED <<sConfig, scrollsPerformed, sResult>>

\* the loop is over, by its condition or by the break: the final sample and
\* the return
ScrollReturn ==
    /\ sPc = "loop"
    /\ sBroke \/ sIter >= sConfig.max_scrolls
    /\ sPc' = "done"
    /\ sResult' = [returned |-> TRUE, scrollsPerformed |-> scrollsPerformed,
                   contentChanges |-> contentChanges]
    /\ UNCHANGED <<sConfig, sIter, scrollsPerformed, contentChanges, previousHeight,
                   sBroke>>

ScrollNext ==
    \/ \E cfg \in ScrollConfigs, h \in Heights :
          ScrollCall(cfg, h) /\ UNCHANGED <<poolVars, reqVars, renderVars, apiVars, serverVars, pipeVars, sigVars, proxyVars>>
    \/ \E h \in Heights, grew, atBottom \in BOOLEAN :
          ScrollStep(h, grew, atBottom) /\ UNCHANGED <<poolVars, reqVars, renderVars, apiVars, serverVars, pipeVars, sigVars, proxyVars>>
    \/ \E h \in Heights :
          ScrollOvershoot(h) /\ UNCHANGED <<poolVars, reqVars, renderVars, apiVars, serverVars, pipeVars, sigVars, proxyVars>>
    \/ ScrollReturn /\ UNCHANGED <<poolVars, reqVars, renderVars, apiVars, serverVars, pipeVars, sigVars, proxyVars>>

SpecScroll == InitRender /\ [][ScrollNext]_vars

\* ---------------------------------------------------------------- the limiter and handleRender
\* the window lengths tried (ms)
WindowChoices == {1000, 1500}

LimiterOptions ==
    [windowMs : WindowChoices, maxRequests : 0..MaxLimit, enabled : BOOLEAN]

\* the pool is untouched and unused; the limiter is configured
InitLimiter ==
    /\ serverState = "listening"
    /\ UtilIdle
    /\ limiter \in LimiterOptions
    /\ clock = 0
    /\ store = [k \in Keys |-> NoEntry]
    /\ reply = [h \in Calls |-> NoReply]
    /\ win = [k \in Keys |-> NoWindow]
    /\ RenderIdle
    /\ opts = [minBrowsers |-> 1, maxBrowsers |-> 1, maxContextsPerBrowser |-> 1]
    /\ instances = <<>>
    /\ isHealthy = [i \in Ids |-> TRUE]
    /\ contextCounts = <<>>
    /\ queue = <<>>
    /\ healthCheckTimer = FALSE
    /\ isShuttingDown = FALSE
    /\ initState = "none"
    /\ initLaunches = 0
    /\ replLaunches = 0
    /\ launchFailed = FALSE
    /\ nextId = 1
    /\ engine = [i \in Ids |-> "none"]
    /\ tickClosing = {}
    /\ shutState = "none"
    /\ faults = 0
    /\ pc = [r \in 1..NumReqs |-> "idle"]
    /\ inst = [r \in 1..NumReqs |-> 0]
    /\ abandoned = [r \in 1..NumReqs |-> FALSE]
    /\ outcome = [r \in 1..NumReqs |-> "none"]
    /\ released = [r \in 1..NumReqs |-> 0]
    /\ ahead = [r \in 1..NumReqs |-> {}]
    /\ claimed = <<>>
    /\ ticket = [r \in 1..NumReqs |-> 0]
    /\ timers = {}
    /\ settles = [r \in 1..NumReqs |-> 0]

\* Math.ceil(a / b) for a >= 0, b > 0
Ceil(a, b) == (a + b - 1) \div b

\* variant: a window lasts until strictly after windowMs
windowOverLate(entry, now) ==
    entry = NoEntry \/ now - entry.windowStart > limiter.windowMs

\* isAllowed: !entry || now - entry.windowStart >= this.windowMs
windowOver(entry, now) ==
    entry = NoEntry \/ now - entry.windowStart >= limiter.windowMs

\* variant: the denial reports the start of the window
deniedAtWindowStart(entry) ==
    [allowed |-> FALSE, remaining |-> 0, resetAt |-> entry.windowStart]

\* isAllowed: the result of the rate-limited branch
denied(entry) ==
    [allowed |-> FALSE, remaining |-> 0,
     resetAt |-> entry.windowStart + limiter.windowMs]

\* isAllowed(key) at time now on the key's entry: the result returned
isAllowed(entry, now) ==
    IF ~limiter.enabled
    THEN [allowed |-> TRUE, remaining |-> limiter.maxRequests, resetAt |-> 0]
    ELSE IF windowOver(entry, now)
    THEN [allowed |-> TRUE, remaining |-> limiter.maxRequests - 1,
          resetAt |-> now + limiter.windowMs]
    ELSE IF entry.count >= limiter.maxRequests
    THEN denied(entry)
    ELSE [allowed |-> TRUE, remaining |-> limiter.maxRequests - (entry.count + 1),
          resetAt |-> entry.windowStart + limiter.windowMs]

\* isAllowed(key) at time now on the key's entry: the entry it leaves
isAllowedEntry(entry, now) ==
    IF ~limiter.enabled
    THEN entry
    ELSE IF windowOver(entry, now)
    THEN [count |-> 1, windowStart |-> now]
    ELSE IF entry.count >= limiter.maxRequests
    THEN entry
    ELSE [entry EXCEPT !.count = entry.count + 1]

\* createRateLimitHeaders(remaining, resetAt); String(n) is kept as n
createRateLimitHeaders(remaining, resetAt) ==
    [n \in {"X-RateLimit-Limit", "X-RateLimit-Remaining", "X-RateLimit-Reset"} |->
        IF n = "X-RateLimit-Limit" THEN limiter.maxRequests
        ELSE IF n = "X-RateLimit-Remaining" THEN remaining
        ELSE Ceil(resetAt, 1000)]

\* variant: the headers are added after the rate-limit branch has returned
rateLimitHeadersWhenAllowed(res) ==
    IF res.allowed THEN createRateLimitHeaders(res.remaining, res.resetAt) ELSE <<>>

\* handleRender: the headers put on the reply before any response is sent
rateLimitHeaders(res) == createRateLimitHeaders(res.remaining, res.resetAt)

\* handleRender: the status of the response renderWithTimeout returned
statusCode(res) ==
    IF res = "ok" THEN 200 ELSE IF res = "TIMEOUT" THEN 504 ELSE 500

\* what `await renderWithTimeout(...)` gives handleRender: a response with
\* success, a response whose first error code is TIMEOUT, one with another
\* first code, or an exception in the try block
RenderOutcomes == {"ok", "TIMEOUT", "NAVIGATION_FAILED", "throws"}

\* the fixed window of the key at time now: the one in progress, or a new one
\* that this call begins
windowAfter(w, now, ok) ==
    IF w.start >= 0 /\ now < w.start + limiter.windowMs
    THEN [w EXCEPT !.calls = w.calls + 1,
                   !.accepted = w.accepted + (IF ok THEN 1 ELSE 0)]
    ELSE [start |-> now, calls |-> 1, accepted |-> IF ok THEN 1 ELSE 0]

\* variant: a body that fails validation is rendered all the same
validationFailedRenders(base) ==
    [base EXCEPT !.pc = "rendering", !.validated = TRUE, !.rendered = TRUE]

\* handleRender: the branch taken when validateRenderRequest fails
validationFailed(base) ==
    [base EXCEPT !.pc = "sent", !.status = 400, !.code = "VALIDATION_ERROR",
                 !.validated = TRUE]

\* handleRender up to its first response or to `await renderWithTimeout`
HandleRender(h, k, valid) ==
    LET res == isAllowed(store[k], clock)
        w == windowAfter(win[k], clock, res.allowed)
        base == [NoReply EXCEPT !.key = k, !.at = clock, !.idx = w.calls,
                                !.result = res, !.headers = rateLimitHeaders(res),
                                !.bodyValid = valid]
    IN
    /\ reply[h].pc = "idle"
    /\ \A g \in Calls : g < h => reply[g].pc # "idle"
    /\ store' = [store EXCEPT ![k] = isAllowedEntry(store[k], clock)]
    /\ win' = [win EXCEPT ![k] = w]
    /\ reply' = [reply EXCEPT ![h] =
                    IF ~res.allowed
                    THEN [base EXCEPT !.pc = "sent", !.status = 429,
                                      !.code = "RATE_LIMITED"]
                    ELSE IF ~valid
                    THEN validationFailed(base)
                    ELSE [base EXCEPT !.pc = "rendering", !.validated = TRUE,
                                      !.rendered = TRUE]]
    /\ UNCHANGED <<limiter, clock>>

\* handleRender after `await renderWithTimeout`: send the response, or the
\* INTERNAL_ERROR response of the catch block
RenderSettles(h, out) ==
    /\ reply[h].pc = "rendering"
    /\ reply' = [reply EXCEPT ![h] =
                    IF out = "throws"
                    THEN [@ EXCEPT !.pc = "sent", !.status = 500,
                                   !.code = "INTERNAL_ERROR"]
                    ELSE [@ EXCEPT !.pc = "sent", !.status = statusCode(out),
                                   !.code = out]]
    /\ UNCHANGED <<limiter, clock, store, win>>

\* RateLimiter.cleanup(), run by the interval: delete the expired entries
Sweep ==
    /\ limiter.enabled
    /\ store' = [k \in Keys |->
                    IF store[k] # NoEntry /\ clock - store[k].windowStart >= limiter.windowMs
                    THEN NoEntry ELSE store[k]]
    /\ UNCHANGED <<limiter, clock, reply, win>>

\* time passes
ClockTick ==
    /\ clock + ClockStep <= MaxClock
    /\ clock' = clock + ClockStep
    /\ UNCHANGED <<limiter, store, reply, win>>

LimiterNext ==
    \/ \E h \in Calls, k \in Keys, valid \in BOOLEAN :
          HandleRender(h, k, valid) /\ UNCHANGED <<poolVars, reqVars, renderVars, serverVars, utilVars>>
    \/ \E h \in Calls, out \in RenderOutcomes :
          RenderSettles(h, out) /\ UNCHANGED <<poolVars, reqVars, renderVars, serverVars, utilVars>>
    \/ Sweep /\ UNCHANGED <<poolVars, reqVars, renderVars, serverVars, utilVars>>
    \/ ClockTick /\ UNCHANGED <<poolVars, reqVars, renderVars, serverVars, utilVars>>

SpecLimiter == InitLimiter /\ [][LimiterNext]_vars

\* ---------------------------------------------------------------- properties

\* getStatus: totalContexts, the sum of the counts of the instances held
RECURSIVE SumCounts(_, _)
SumCounts(insts, cc) ==
    IF insts = <<>> THEN 0 ELSE Count(cc, Head(insts)) + SumCounts(Tail(insts), cc)

totalContexts == SumCounts(instances, contextCounts)

\* the requests whose slot is reserved or whose lease is out and not released
Holding == {r \in Reqs : pc[r] \in {"creating", "running", "closing", "leaked"}}

\* no request is under way
Quiescent == \A r \in Reqs : pc[r] \in {"idle", "done"}

\* the place of x in the sequence q
Pos(q, x) == CHOOSE i \in 1..Len(q) : q[i] = x

C2_InstancesWithinLimit == Len(instances) <= opts.maxBrowsers

\* C3: every lease render obtains is released exactly once on every exit path
\* of the pipeline: never twice, not before the pipeline ends, once when render
\* is done; and when no request is under way every lease count is back at 0.
C3_ReleasedExactlyOnce ==
    /\ \A r \in Reqs :
          /\ released[r] <= 1
          /\ pc[r] \in {"running", "closing"} => released[r] = 0
          /\ (pc[r] = "done" /\ outcome[r] = "lease") => released[r] = 1
          /\ outcome[r] # "lease" => released[r] = 0
    /\ Quiescent => \A id \in DOMAIN contextCounts : contextCounts[id] = 0

\* C3 witness: every request obtained a lease, ran the pipeline and released it.
C3_AllReleased ==
    /\ \A r \in Reqs : pc[r] = "done" /\ outcome[r] = "lease" /\ released[r] = 1
    /\ instances # <<>>

\* C4: the sum of the per-instance lease counts equals the number of leases
\* handed out (slots reserved for a context being created included) and not yet
\* released, and no count is negative.
C4_CountsMatchLeases ==
    /\ totalContexts = Cardinality(Holding)
    /\ \A id \in DOMAIN contextCounts : contextCounts[id] >= 0

\* C5: a second call of a lease's release changes no lease count and hands no
\* slot to a queued acquisition.
C5_SecondReleaseNoOp ==
    [][\A r \in Reqs :
          (released[r] = 1 /\ released'[r] = 2) =>
              /\ \A id \in Range(instances) :
                    Count(contextCounts', id) = Count(contextCounts, id)
              /\ queue' = queue]_vars

\* C6: when the acquisition sub-timeout has expired while the pool was still
\* launching or creating for the request, the lease the pool then produces does
\* not stay counted against the instance.
C6_AbandonedSlotNotCounted ==
    \A r \in Reqs : pc[r] = "leaked" => Count(contextCounts, inst[r]) = 0

\* C7: renderWithTimeout has returned by timeout_ms + 30 s (30 s standing for a
\* timeout_ms not given) after its call; a response the deadline produced is
\* TOTAL_TIMEOUT; the result is always a response, never a throw.
C7_OuterDeadline ==
    LET limit == rStart + (IF rTimeoutMs = 0 THEN 30000 ELSE rTimeoutMs) + 30000 IN
    /\ (rStage # "idle" /\ rResp = "none") => rnow <= limit
    /\ rResp # "none" => rRespAt <= limit
    /\ rWinner = "timer" => rResp = "TOTAL_TIMEOUT" /\ rRespAt = limit
    /\ rResp \in {"none", "ok", "NAVIGATION_FAILED", "TOTAL_TIMEOUT"} \cup CatchCodes

\* C7 witness: the deadline fired while the pipeline was in a stage after
\* navigation, for a request that gave its own timeout_ms.
C7_DeadlineMidPipeline ==
    /\ rWinner = "timer"
    /\ rStage = "scroll"
    /\ rTimeoutMs = 5000
    /\ rStart > 0

\* C8: the queue is FIFO in what it grants: of the acquisitions taken from the
\* queue, the one enqueued first has its promise resolved with a context first.
C8_FifoResolution ==
    [][\A r \in Reqs :
          (r \in Range(claimed) /\ pc[r] = "creating"
             /\ pc'[r] \in {"running", "leaked"}) => r = Head(claimed)]_vars

\* C9: no acquire call that arrived after an acquisition was queued obtains a
\* lease while that acquisition is still waiting in the queue.
C9_NoOvertaking ==
    \A r \in Reqs : pc[r] = "running" => \A q \in ahead[r] : pc[q] # "queued"

\* C10: a queued acquisition whose deadline passes is removed from the queue
\* and rejected with "Timeout waiting for available browser"; it is never
\* granted a lease afterwards; the remaining entries keep their relative order.
C10_QueueTimeoutRemoves ==
    /\ [](/\ \A r \in Reqs : pc[r] = "queued" <=> r \in Range(queue)
          /\ Len(queue) = Cardinality(Range(queue))
          /\ \A r \in Reqs :
                outcome[r] = "Timeout waiting for available browser" =>
                    pc[r] = "done" /\ released[r] = 0 /\ r \notin Range(claimed))
    /\ [][\A r \in Reqs :
             /\ outcome[r] = "Timeout waiting for available browser" =>
                   outcome'[r] = outcome[r] /\ pc'[r] = "done"
             /\ (outcome[r] # "Timeout waiting for available browser"
                   /\ outcome'[r] = "Timeout waiting for available browser") =>
                   /\ pc[r] = "queued"
                   /\ Range(queue') = Range(queue) \ {r}
                   /\ \A a, b \in Range(queue') :
                         Pos(queue', a) < Pos(queue', b) <=> Pos(queue, a) < Pos(queue, b)]_vars

\* C10 witness: the middle one of three queued acquisitions has timed out and
\* the other two are still queued in their order.
C10_MiddleTimedOut ==
    \E r \in Reqs :
        /\ outcome[r] = "Timeout waiting for available browser"
        /\ Len(queue) = 2
        /\ queue[1] < r
        /\ r < queue[2]

\* C11: a queued acquisition is settled at most once (resolved with a lease,
\* rejected by its timer, or rejected by shutdown); its timer is armed only
\* while it is in the queue, so it cannot fire once processQueue has claimed
\* it; an acquisition enters the queue only from acquire's own path and never
\* a second time.
C11_SettledAtMostOnce ==
    /\ [](/\ \A r \in Reqs : settles[r] <= 1
          /\ timers \subseteq Range(queue)
          /\ \A r \in Range(claimed) : r \notin Range(queue) /\ r \notin timers)
    /\ [][\A r \in Reqs :
             /\ (r \notin Range(queue) /\ r \in Range(queue')) =>
                   pc[r] \in {"idle", "init", "launching"}
             /\ pc[r] \notin {"idle", "init", "launching"} =>
                   pc'[r] \notin {"idle", "init", "launching"}
             /\ settles[r] = 1 => settles'[r] = 1 /\ outcome'[r] = outcome[r]]_vars

\* C11 witness: three acquisitions went through the queue and ended one in
\* each way, each settled once.
C11_ThreeOutcomes ==
    \E a, b, c \in Reqs :
        /\ settles[a] = 1 /\ outcome[a] = "lease"
        /\ settles[b] = 1 /\ outcome[b] = TimeoutMessage
        /\ settles[c] = 1 /\ outcome[c] = QueueShutdownMessage

\* C12: once the shutting-down flag is set, a call to acquire ends at once
\* with the error "Browser pool is shutting down": it starts no
\* initialisation or launch, reserves no slot and queues nothing.
C12_AcquireRefusedAfterShutdown ==
    /\ [](\A r \in Reqs :
             outcome[r] = ShuttingDownMessage =>
                 /\ pc[r] = "done"
                 /\ inst[r] = 0
                 /\ released[r] = 0
                 /\ r \notin Range(queue)
                 /\ r \notin Range(claimed))
    /\ [][\A r \in Reqs :
             (isShuttingDown /\ pc[r] = "idle" /\ pc'[r] # "idle") =>
                 /\ pc'[r] = "done"
                 /\ outcome'[r] = ShuttingDownMessage
                 /\ UNCHANGED <<instances, contextCounts, queue, timers, initState,
                                initLaunches, replLaunches, launchFailed, nextId, engine>>]_vars

\* C12 witness: an acquire called after shutdown began was refused while
\* another request had obtained its lease before.
C12_RefusedAfterFlag ==
    \E r, q \in Reqs :
        /\ isShuttingDown
        /\ outcome[r] = ShuttingDownMessage
        /\ outcome[q] = "lease"

\* C13: once shutdown has set the flag and drained the queue, the queue stays
\* empty: no acquisition remains queued and none becomes queued, also not
\* one whose acquire had passed the shutting-down check before.
C13_QueueEmptyAfterShutdown ==
    isShuttingDown => queue = <<>>

\* C14: after shutdown has completed the pool holds no browser instance, no
\* lease count and no queued acquisition, whatever was in flight when it began.
C14_EmptyAfterShutdown ==
    shutState = "done" =>
        /\ instances = <<>>
        /\ contextCounts = <<>>
        /\ queue = <<>>

\* C15: with the limiter enabled, the calls that isAllowed accepts for one
\* key inside one fixed window never number more than maxRequests, for every
\* maxRequests >= 0.
C15_AcceptedWithinLimit ==
    limiter.enabled => \A k \in Keys : win[k].accepted <= limiter.maxRequests

\* C16: with the limiter enabled and limit N, each of the first N requests
\* of a client inside one window is allowed, and request N+1 is denied and
\* answered with 429, RATE_LIMITED and the three X-RateLimit headers, its
\* body not validated and no render started.
C16_FirstNThenDenied ==
    limiter.enabled =>
        \A h \in Calls :
            reply[h].pc # "idle" =>
                /\ reply[h].idx <= limiter.maxRequests => reply[h].result.allowed
                /\ reply[h].idx = limiter.maxRequests + 1 =>
                      /\ ~reply[h].result.allowed
                      /\ reply[h].status = 429
                      /\ reply[h].code = "RATE_LIMITED"
                      /\ DOMAIN reply[h].headers =
                            {"X-RateLimit-Limit", "X-RateLimit-Remaining",
                             "X-RateLimit-Reset"}
                      /\ ~reply[h].validated
                      /\ ~reply[h].rendered

\* C17: a denied isAllowed call reports remaining 0 and resetAt = windowStart +
\* windowMs of the key's entry, which is not earlier than the time of the call
\* (nor is the X-RateLimit-Reset header, in seconds), and the call leaves the
\* store as it was.
C17_DeniedCallFrame ==
    /\ [](\A h \in Calls :
             (reply[h].pc # "idle" /\ ~reply[h].result.allowed) =>
                 /\ reply[h].result.remaining = 0
                 /\ reply[h].result.resetAt >= reply[h].at
                 /\ reply[h].headers["X-RateLimit-Remaining"] = 0
                 /\ reply[h].headers["X-RateLimit-Reset"] * 1000 >= reply[h].at)
    /\ [][\A h \in Calls :
             (reply[h].pc = "idle" /\ reply'[h].pc # "idle"
                 /\ ~reply'[h].result.allowed) =>
                 /\ store' = store
                 /\ store[reply'[h].key] # NoEntry
                 /\ reply'[h].result.resetAt =
                       store[reply'[h].key].windowStart + limiter.windowMs]_vars

\* C17 witness: a call was denied some time after its window began, the
\* key's entry standing at the limit.
C17_DeniedLater ==
    \E h \in Calls :
        /\ reply[h].pc = "sent"
        /\ ~reply[h].result.allowed
        /\ limiter.maxRequests >= 1
        /\ store[reply[h].key].count = limiter.maxRequests
        /\ reply[h].at > store[reply[h].key].windowStart
        /\ reply[h].result.resetAt > reply[h].at

\* C18: every response handleRender has sent, whatever its status, carries
\* the X-RateLimit-Limit and X-RateLimit-Remaining headers.
C18_HeadersOnEveryResponse ==
    \A h \in Calls :
        reply[h].status # 0 =>
            /\ reply[h].status \in {200, 400, 429, 500, 504}
            /\ {"X-RateLimit-Limit", "X-RateLimit-Remaining"}
                  \subseteq DOMAIN reply[h].headers
            /\ reply[h].headers["X-RateLimit-Limit"] = limiter.maxRequests
            /\ reply[h].headers["X-RateLimit-Remaining"] = reply[h].result.remaining

\* C18 witness: a rate-limited, a rejected and a rendered request have all
\* been answered.
C18_ThreeKindsAnswered ==
    \E a, b, c \in Calls :
        /\ reply[a].status = 429
        /\ reply[b].status = 400
        /\ reply[c].status \in {200, 500, 504}
        /\ reply[c].rendered

\* C19: the status of the response to a render is 200 on success, 504 when
\* the render failed because of a timeout at any level (queue wait,
\* acquisition, navigation, outer deadline) and 500 for every other failure.
C19_StatusByCause ==
    rResp # "none" =>
        statusCode(rResp) =
            IF rResp = "ok" THEN 200
            ELSE IF rWinner = "timer" \/ rWhy \in {"timeout", "navigation_timeout"} THEN 504
            ELSE 500

\* C20 as stated: when the navigation has not completed within timeout_ms the
\* response is a failure whose first error code is TIMEOUT or
\* NAVIGATION_FAILED, and the lease is released once render has returned.
C20_TimeoutOrNavigationFailed ==
    (rWhy = "navigation_timeout" /\ rResp # "none") =>
        /\ rResp \in {"TIMEOUT", "NAVIGATION_FAILED"}
        /\ rStage = "returned" => rLease = "released"

\* C20 amended: when the navigation has not completed within timeout_ms,
\* render's own result is NAVIGATION_FAILED and the lease is released when
\* render returns; the response is that result, or TOTAL_TIMEOUT when the
\* outer deadline passed before render had returned.
C20_NavigationFailedOrTotalTimeout ==
    rWhy = "navigation_timeout" =>
        /\ rnow >= rNavStart + navTimeout(rTimeoutMs)
        /\ rStage \in {"cleanup", "returned"}
        /\ rResult = "NAVIGATION_FAILED"
        /\ rResp \in {"none", "NAVIGATION_FAILED", "TOTAL_TIMEOUT"}
        /\ rResp = "TOTAL_TIMEOUT" => rWinner = "timer" /\ rRespAt >= OuterDeadline
        /\ rResp = "NAVIGATION_FAILED" => rWinner = "render" /\ rLease = "released"
        /\ rStage = "returned" => rLease = "released"
        /\ rStage = "cleanup" => rLease = "held"

\* C20 witness: the navigation ran into its timeout, render returned
\* NAVIGATION_FAILED before the outer deadline and the lease is released.
C20_NavigationTimedOut ==
    /\ rStage = "returned"
    /\ rWhy = "navigation_timeout"
    /\ rResp = "NAVIGATION_FAILED"
    /\ rRespAt >= rNavStart + navTimeout(rTimeoutMs)
    /\ rRespAt < OuterDeadline
    /\ rLease = "released"

\* C21: with maxBrowsers = 1 and maxContextsPerBrowser = 1, no engine fault
\* and no shutdown, two concurrent requests never hold a lease at the same
\* time: the second waits in the queue while the first holds the lease.
C21_SecondWaitsForFirst ==
    (opts.maxBrowsers = 1 /\ opts.maxContextsPerBrowser = 1 /\ faults = 0
        /\ ~isShuttingDown) =>
        Cardinality({r \in Reqs : pc[r] \in {"running", "closing"}}) <= 1

\* getStatus: the free slots of the healthy instances among insts
RECURSIVE healthyCapacity(_, _, _)
healthyCapacity(insts, healthy, cc) ==
    IF insts = <<>> THEN 0
    ELSE (IF healthy[Head(insts)]
          THEN opts.maxContextsPerBrowser - Count(cc, Head(insts)) ELSE 0)
         + healthyCapacity(Tail(insts), healthy, cc)

\* getStatus: potentialNewBrowsers * maxContextsPerBrowser
potentialSlots == (opts.maxBrowsers - Len(instances)) * opts.maxContextsPerBrowser

\* getStatus: the fields of the status returned
totalBrowsers == Len(instances)

availableSlots == healthyCapacity(instances, isHealthy, contextCounts) + potentialSlots

queueLength == Len(queue)

\* C22: in every reachable state getStatus reports totalBrowsers >= 0,
\* availableSlots >= 0 and queueLength >= 0.
C22_StatusNonNegative ==
    /\ totalBrowsers >= 0
    /\ availableSlots >= 0
    /\ queueLength >= 0

\* C23: the server does not come to listen when none of the minBrowsers >= 1
\* launches of initialize has produced a browser.
C23_NoListenWithoutBrowser ==
    (serverState = "listening" /\ opts.minBrowsers >= 1) => nextId > 1

\* C24 as stated: a request whose body fails validation is answered with
\* 400 and VALIDATION_ERROR, and no render, hence no lease, is started for it.
C24_InvalidBodyGets400 ==
    \A h \in Calls :
        (reply[h].pc # "idle" /\ ~reply[h].bodyValid) =>
            /\ reply[h].status = 400
            /\ reply[h].code = "VALIDATION_ERROR"
            /\ ~reply[h].rendered

\* C24 amended: a request that the rate limiter lets through and whose body
\* fails validation is answered with 400 and VALIDATION_ERROR; a rate-limited
\* one is answered with 429 before its body is looked at; for neither is a
\* render, hence a lease, started.
C24_InvalidBodyUnlessLimited ==
    \A h \in Calls :
        (reply[h].pc # "idle" /\ ~reply[h].bodyValid) =>
            /\ reply[h].pc = "sent"
            /\ ~reply[h].rendered
            /\ reply[h].result.allowed =>
                  /\ reply[h].status = 400
                  /\ reply[h].code = "VALIDATION_ERROR"
                  /\ reply[h].validated
            /\ ~reply[h].result.allowed =>
                  /\ reply[h].status = 429
                  /\ reply[h].code = "RATE_LIMITED"
                  /\ ~reply[h].validated

\* C24 witness: of two requests with an invalid body one was answered with
\* 400 and, the limit being reached, the other with 429.
C24_InvalidBodyBothWays ==
    \E a, b \in Calls :
        /\ ~reply[a].bodyValid /\ reply[a].status = 400
        /\ ~reply[b].bodyValid /\ reply[b].status = 429

\* C25: a step that releases a lease or stores a newly launched browser
\* leaves no acquisition queued while a healthy browser has a free slot:
\* processQueue has run after it and has served the head of the queue.
C25_QueueServedOnSlot ==
    [][(released' # released \/ Len(instances') > Len(instances)) =>
          (queue' = <<>> \/ findAvailableBrowser(instances', isHealthy', contextCounts') = 0)]_vars

\* C26: when context creation fails for an acquisition that processQueue
\* dequeued, the acquisition is rejected and the slot it gives back goes to the
\* next queued acquisition in the same step: nobody stays queued next to a
\* healthy browser with a free slot.
C26_DrainsAfterFailedCreate ==
    [][\A r \in Reqs :
          (r \in Range(claimed) /\ pc[r] = "creating" /\ outcome'[r] = "createfail") =>
              /\ pc'[r] = "done"
              /\ \/ queue' = <<>>
                 \/ findAvailableBrowser(instances', isHealthy', contextCounts') = 0]_vars

\* C27: the health tick's idle eviction removes an instance only while
\* the instance has no lease: at the step that ends the tick's close and
\* takes the instance out of the pool, its count is zero.
C27_EvictsOnlyUnleased ==
    [][\A id \in Ids :
          (id \in tickClosing /\ id \notin tickClosing'
              /\ id \in Range(instances) /\ id \notin Range(instances')) =>
              Count(contextCounts, id) = 0]_vars

\* C28: while the pool is not shutting down, the step in which the health
\* tick's idle eviction takes an instance out of the pool leaves at least
\* minBrowsers instances.
C28_EvictionKeepsMinimum ==
    [][\A id \in Ids :
          (~isShuttingDown /\ id \in tickClosing /\ id \notin tickClosing'
              /\ id \in Range(instances) /\ id \notin Range(instances')) =>
              Len(instances') >= opts.minBrowsers]_vars

\* C29: the handling of a disconnect, by the disconnected event or by the
\* health tick, takes the instance out of the pool; it starts a replacement
\* launch when the pool is not shutting down and is left with fewer than
\* minBrowsers instances, and starts none while the pool is shutting down.  A
\* replacement that is awaited leads to a pool of at least minBrowsers
\* instances, unless the pool shuts down, a launch of the pool fails or the
\* run's supply of browser ids is used up.
C29_ReplacementAfterDisconnect ==
    /\ [][\A id \in Ids :
             (DisconnectedEvent(id) \/ HealthTickDisconnected(id)) =>
                 /\ id \notin Range(instances')
                 /\ (~isShuttingDown /\ Len(instances') < opts.minBrowsers) =>
                        replLaunches' = replLaunches + 1
                 /\ isShuttingDown => replLaunches' = replLaunches]_vars
    /\ (replLaunches > 0 /\ ~isShuttingDown) ~>
           \/ Len(instances) >= opts.minBrowsers
           \/ isShuttingDown
           \/ launchFailed
           \/ nextId > MaxId

\* C29 witness: the only browser of a pool with minBrowsers = 1 has
\* disconnected and the replacement is in the pool; no request has run, so the
\* second browser can only be the replacement.
C29_ReplacementStored ==
    /\ opts.minBrowsers = 1
    /\ ~isShuttingDown
    /\ engine[1] = "dead"
    /\ instances = <<2>>
    /\ replLaunches = 0
    /\ \A r \in Reqs : pc[r] = "idle"

\* C30: initialize is idempotent.  Whoever calls it and however often,
\* the launches of _initialize are started by the first call only and are
\* minBrowsers in number, the initialisation goes from not started to running
\* to done and never back, the health ticker is started only at that one
\* completion, and every caller that waits goes on only once it is done.
C30_InitializeIdempotent ==
    /\ [](\A r \in Reqs : pc[r] = "init" => initState # "none")
    /\ [][/\ initLaunches' > initLaunches =>
                (initState = "none" /\ initLaunches' = opts.minBrowsers)
          /\ initState' # initState =>
                \/ initState = "none" /\ initState' = "running"
                \/ initState = "running" /\ initState' = "done"
          /\ (healthCheckTimer' /\ ~healthCheckTimer) =>
                (initState = "running" /\ initState' = "done")
          /\ \A r \in Reqs : (pc[r] = "init" /\ pc'[r] # "init") => initState = "done"
          /\ (serverState = "initializing" /\ serverState' # "initializing") =>
                (initState = "running" /\ initState' = "done")]_vars

\* C30 witness: start() and two acquire calls have all called initialize and
\* wait for it, and one launch, minBrowsers = 1, is under way.
C30_ThreeCallersOneLaunch ==
    /\ opts.minBrowsers = 1
    /\ serverState = "initializing"
    /\ \A r \in Reqs : pc[r] = "init"
    /\ initState = "running"
    /\ initLaunches = 1
    /\ nextId = 1

StageOrder == <<"acquire">> \o Stages \o <<"release">>

StagePos(st) == CHOOSE j \in 1..Len(StageOrder) : StageOrder[j] = st

\* C32: the stages of one request run in the order acquire, navigate,
\* stabilize, scripts, scripted wait, scroll, detection, extract, debug
\* artifacts, release, each at most once; the stabilisation runs only when
\* wait_until is networkidle; after a failed navigation only the release runs;
\* and the release is the last stage that runs.
C32_StagesInOrder ==
    /\ \A i, j \in 1..Len(pRan) : i < j => StagePos(pRan[i]) < StagePos(pRan[j])
    /\ "stabilize" \in Range(pRan) => pConfig.networkidle
    /\ (pResult.made /\ pResult.errors = <<"NAVIGATION_FAILED">>) =>
           Range(pRan) \subseteq {"acquire", "navigate", "release"}
    /\ "release" \in Range(pRan) => pRan[Len(pRan)] = "release"
    /\ pStage \in Range(Stages) => "release" \notin Range(pRan)

\* C32 witness: a request that asked for every optional stage has run all ten
\* stages.
C32_AllStagesRan ==
    /\ pStage = "returned"
    /\ pRan = StageOrder

\* C33: a failure of a script, of the scripted wait, of a detector or of
\* the screenshot is caught where it happens.  The step in which it happens
\* goes on to the next stage of the request and leaves render without an
\* error response; a failed script ends the script loop; a detector that
\* throws is reported as nothing detected; and a request that has come to the
\* debug artifacts returns success = true whatever was caught on the way.
C33_SoftFailuresDoNotFail ==
    /\ []("js_code" \in pSoft => pStage # "js_code")
    /\ []("captcha" \in pSoft => ~pDetect.captchaDetected)
    /\ []("block" \in pSoft => ~pDetect.blocked)
    /\ []((pStage = "returned" /\ "debug" \in Range(pRan)) =>
             /\ pResult.success
             /\ pResult.captcha_detected = pDetect.captchaDetected
             /\ pResult.blocked = pDetect.blocked)
    /\ [][pSoft' # pSoft =>
             /\ pStage' = nextStage(pConfig, pStage)
             /\ pResult' = pResult \/ pResult'.success
             /\ pScripts' <= pConfig.js_code]_vars

\* C33 witness: the first of two scripts, the scripted wait, both detectors
\* and the screenshot have failed, the second script has not run, and render
\* has returned success = true.
C33_EverythingSoftFailed ==
    /\ pStage = "returned"
    /\ pSoft = {"js_code", "wait_for", "captcha", "block", "screenshot"}
    /\ pConfig.js_code = 2
    /\ pScripts = 1
    /\ pResult.success
    /\ ~pResult.screenshot

\* what is left of the loop of performScroll: the iterations not yet
\* completed, twice, less one while an iteration waits for its overshoot
ScrollMeasure ==
    IF sPc \in {"idle", "done"} THEN 0
    ELSE IF sBroke THEN 1
    ELSE 2 * (sConfig.max_scrolls - sIter) + 2 - (IF sPc = "overshoot" THEN 1 ELSE 0)

\* C34: performScroll scrolls at most max_scrolls times and reports that
\* number; every step of its loop brings it nearer to its end, so it
\* terminates; when the viewport is at the bottom and the height after the
\* overshoot is not above the height recorded before, the loop ends there;
\* and with scrolling disabled it returns zero counts without a scroll.
C34_ScrollBounded ==
    /\ [](scrollsPerformed <= sConfig.max_scrolls /\ sIter <= sConfig.max_scrolls)
    /\ [](sResult.returned =>
             /\ sResult.scrollsPerformed = scrollsPerformed
             /\ sResult.scrollsPerformed <= sConfig.max_scrolls
             /\ ~sConfig.enabled =>
                   (sResult.scrollsPerformed = 0 /\ sResult.contentChanges = 0))
    /\ [](sBroke => scrollsPerformed = sIter + 1)
    /\ [][/\ sPc \in {"loop", "overshoot"} => ScrollMeasure' < ScrollMeasure
          /\ (sPc = "overshoot" /\ previousHeight' = previousHeight) =>
                (sBroke' /\ scrollsPerformed' = scrollsPerformed)
          /\ sBroke => (sPc' = "done" /\ scrollsPerformed' = scrollsPerformed)]_vars

\* C34 witness: a call allowed three scrolls has returned after the second,
\* at the bottom of a page that the overshoot did not make higher.
C34_StoppedAtBottom ==
    /\ sPc = "done"
    /\ sConfig.max_scrolls = 3
    /\ sBroke
    /\ sResult.scrollsPerformed = 2

\* C35: after the signal the server takes no new request, the shutdown of
\* the pool starts only when no render pipeline is in flight, and the process
\* exits with 0 after the pool was shut down and with 1 when shutdown failed.
C35_GracefulOrder ==
    /\ [][sdState # "serving" => ~(rStage = "idle" /\ rStage' # "idle")]_vars
    /\ [][(sdState # "poolShutdown" /\ sdState' = "poolShutdown") => ~PipelineInFlight]_vars
    /\ [][sdState' = "exited" /\ sdState # "exited" =>
             exitCode' = (IF sdState = "poolShutdown" THEN 0 ELSE 1)]_vars

\* the moments the clock can show
ClockValues == {t \in 0..MaxClock : t % ClockStep = 0}

\* C36: a sweep removes the entries whose window is over for isAllowed and
\* leaves the others as they are, and at every later moment isAllowed returns
\* the same result and leaves the same entry for a key whether or not the
\* sweep has run.
C36_SweepIsUnobservable ==
    [][(clock' = clock /\ reply' = reply) =>
          \A k \in Keys :
             /\ store'[k] = (IF windowOver(store[k], clock) THEN NoEntry ELSE store[k])
             /\ \A t \in ClockValues :
                   t >= clock =>
                      /\ isAllowed(store'[k], t) = isAllowed(store[k], t)
                      /\ isAllowedEntry(store'[k], t) = isAllowedEntry(store[k], t)]_vars

\* C36 witness: the entry of a key that was denied in its window has been
\* swept, and another key still has its entry.
C36_SweptOneKeptOne ==
    /\ limiter.enabled
    /\ \E k \in Keys :
          /\ store[k] = NoEntry
          /\ win[k].start >= 0
          /\ win[k].accepted < win[k].calls
    /\ \E k \in Keys : store[k] # NoEntry

\* C37: whenever no browser launch and no context creation is in flight
\* and an acquisition is queued, no healthy instance has a free slot.
C37_WorkConserving ==
    (/\ initLaunches = 0
     /\ replLaunches = 0
     /\ \A r \in Reqs : pc[r] \notin {"launching", "creating"}
     /\ queue # <<>>)
        => findAvailableBrowser(instances, isHealthy, contextCounts) = 0

\* C38: the lease counts are kept for exactly the instances of the pool.
C38_CountsForInstancesOnly ==
    DOMAIN contextCounts = Range(instances)

\* C39: a context whose lease says proxy_used was created with a proxy
\* option, so a config that parseProxy rejects never yields a context without
\* proxy that reports proxy_used = true.
C39_ProxyUsedMeansProxied ==
    (pxPc = "created" /\ proxyUsed) => playwrightProxy.set

\* the codes an error response of render or renderWithTimeout starts with
ErrorCodes == {"NAVIGATION_FAILED", "TIMEOUT", "PROXY_ERROR", "BROWSER_ERROR",
               "RENDER_FAILED", "TOTAL_TIMEOUT"}

\* the two shapes of a response
ResponseShape(res) ==
    /\ res.request_id = "requestId"
    /\ res.timestamp = "toISOString"
    /\ IF res.success
       THEN res.errorsNull /\ res.errors = <<>> /\ ~res.contentNull /\ ~res.metaNull
       ELSE /\ res.contentNull /\ res.metaNull
            /\ ~res.errorsNull
            /\ res.errors # <<>>
            /\ res.errors[1] \in ErrorCodes

\* C40: the response render returns and the response renderWithTimeout
\* returns each have one of the two shapes: success with null errors and a
\* content and meta, or failure with null content and meta and a first error
\* code among the six; both carry the request id and a timestamp.
C40_ResponseShapes ==
    /\ pResult.made => ResponseShape(pResult)
    /\ pAnswer.made => ResponseShape(pAnswer)

\* C40 witness: renderWithTimeout has answered TOTAL_TIMEOUT and render has
\* afterwards returned a success response for the same request.
C40_BothShapes ==
    /\ pStage = "returned"
    /\ pResult.made /\ pResult.success
    /\ pAnswer.made /\ ~pAnswer.success
    /\ pAnswer.errors = <<"TOTAL_TIMEOUT">>

====
